---- MODULE Spec2Model ----
(***************************************************************************)
(* Model of the quire validation core: the ErrorCollector cell             *)
(* (src/src/errors.rs), the validators and the Enum builder                *)
(* (src/src/validate.rs) and the default include handler                   *)
(* (src/src/options.rs).                                                   *)
(*                                                                         *)
(* Strings are sequences of one-character strings, Option<T> is a set with *)
(* at most one element, BTreeMap<String, Ast> is a function whose domain   *)
(* is a set of strings.                                                    *)
(***************************************************************************)
EXTENDS Integers, Sequences, FiniteSets, TLC

VARIABLES
    cell,       \* the RefCell<Option<ErrorList>> behind every handle
    handles,    \* number of live handles (clones) of the collector
    last,       \* the last call made on the collector and how it ended
    added,      \* history: errors passed to add_error calls that returned
    steps,      \* history: number of calls made so far
    overflow_checks, \* the build: TRUE when integer overflow panics (debug)
    schema,     \* the validator under test
    input,      \* the Ast handed to validate
    pc,         \* position of the validation session
    res,        \* what the first validate call of the session returned
    res2,       \* what validating res.ast once more returned
    built       \* history: the builder calls that made schema

vars == <<cell, handles, last, added, steps, overflow_checks, schema, input,
          pc, res, res2, built>>

(***************************************************************************)
(* Bounds of the model                                                     *)
(***************************************************************************)
MaxSteps == 4
MaxHandles == 2

(***************************************************************************)
(* Option<T>                                                               *)
(***************************************************************************)
None == {}
Some(x) == {x}
IsSome(o) == o # {}
Unwrap(o) == CHOOSE x \in o : TRUE

(***************************************************************************)
(* The validator structs of validate.rs; ty is the concrete type behind a  *)
(* Box<Validator>                                                          *)
(***************************************************************************)
\* the concrete type a Box<Validator> dispatches on
TypeOf(self) == self.ty

ScalarV(optional, default, min_length, max_length) ==
    [ty |-> "Scalar", optional |-> optional, default |-> default,
     min_length |-> min_length, max_length |-> max_length]
NumericV(optional, default, min, max) ==
    [ty |-> "Numeric", optional |-> optional, default |-> default,
     min |-> min, max |-> max]
DirectoryV(optional, default, absolute) ==
    [ty |-> "Directory", optional |-> optional, default |-> default,
     absolute |-> absolute]
Member(name, validator) == [name |-> name, validator |-> validator]
StructureV(members, optional, from_scalar) ==
    [ty |-> "Structure", members |-> members, optional |-> optional,
     from_scalar |-> from_scalar]
EnumV(options, optional, default_tag, allow_plain) ==
    [ty |-> "Enum", options |-> options, optional |-> optional,
     default_tag |-> default_tag, allow_plain |-> allow_plain]
MappingV(key_element, value_element, from_scalar) ==
    [ty |-> "Mapping", key_element |-> key_element,
     value_element |-> value_element, from_scalar |-> from_scalar]
SequenceV(element, from_scalar) ==
    [ty |-> "Sequence", element |-> element, from_scalar |-> from_scalar]
AnythingV == [ty |-> "Anything"]
NothingV == [ty |-> "Nothing"]

(***************************************************************************)
(* errors.rs: Error and ErrorList                                          *)
(***************************************************************************)
\* Error::<kind>(ErrorPos(pos), msg); msg is the format string, its integer
\* argument, its string argument and its set-of-keys argument.
MkError(kind, pos, fmt, n, name, keys) ==
    [kind |-> kind, pos |-> pos, fmt |-> fmt, n |-> n, name |-> name,
     keys |-> keys]

validation_error(pos, fmt) == MkError("ValidationError", pos, fmt, 0, <<>>, {})
validation_error_n(pos, fmt, n) ==
    MkError("ValidationError", pos, fmt, n, <<>>, {})
validation_error_s(pos, fmt, name) ==
    MkError("ValidationError", pos, fmt, 0, name, {})
validation_error_k(pos, fmt, keys) ==
    MkError("ValidationError", pos, fmt, 0, <<>>, keys)
parse_error(pos, fmt) == MkError("ParseError", pos, fmt, 0, <<>>, {})
preprocess_error(pos, fmt) == MkError("PreprocessError", pos, fmt, 0, <<>>, {})

\* a list that pushes at the front
ErrorList_add_error_front(errors, err) == <<err>> \o errors
\* ErrorList::add_error: self.errors.push(err)
ErrorList_add_error(errors, err) == Append(errors, err)

(***************************************************************************)
(* Strings.  A String is a sequence of characters; len() and slicing count *)
(* bytes of the UTF-8 encoding.                                            *)
(***************************************************************************)
\* The characters of the model in byte order; the last one is encoded on
\* two bytes.
Alphabet == <<" ", "+", "-", ".", "/", "0", "1", "2", "3", "4", "5", "6",
              "7", "8", "9", "G", "M", "_", "a", "b", "c", "d", "e", "f",
              "i", "k", "o", "x", "U+00E9">>
Utf8Len(c) == IF c = "U+00E9" THEN 2 ELSE 1
CharCode(c) == CHOOSE i \in 1..Len(Alphabet) : Alphabet[i] = c

RECURSIVE ByteLen(_)
\* str::len(): the number of bytes
ByteLen(s) == IF s = <<>> THEN 0 ELSE Utf8Len(Head(s)) + ByteLen(Tail(s))

\* str::chars().count()
CharCount(s) == Len(s)

\* str::is_char_boundary(i)
IsCharBoundary(s, i) ==
    \E k \in 0..Len(s) : ByteLen(SubSeq(s, 1, k)) = i
CharsBefore(s, i) ==
    CHOOSE k \in 0..Len(s) : ByteLen(SubSeq(s, 1, k)) = i
\* &s[i..] and &s[..i] for a byte index i that is a char boundary
SliceFrom(s, i) == SubSeq(s, CharsBefore(s, i) + 1, Len(s))
SliceTo(s, i) == SubSeq(s, 1, CharsBefore(s, i))

\* Ord for String: lexicographic on bytes
RECURSIVE StrLess(_, _)
StrLess(a, b) ==
    IF b = <<>> THEN FALSE
    ELSE IF a = <<>> THEN TRUE
    ELSE IF Head(a) # Head(b) THEN CharCode(Head(a)) < CharCode(Head(b))
    ELSE StrLess(Tail(a), Tail(b))

\* str::replace("_", "-")
\* a replace that leaves the string as it is
StrReplaceUnderscore_none(s) == s
\* str::replace("_", "-")
StrReplaceUnderscore(s) ==
    [i \in 1..Len(s) |-> IF s[i] = "_" THEN "-" ELSE s[i]]

\* str::starts_with("_")
StartsWithUnderscore(s) == s # <<>> /\ Head(s) = "_"

(***************************************************************************)
(* i64.  An integer is a sign and a magnitude, the magnitude being the     *)
(* sequence of its bytes, least significant first, without leading zero    *)
(* bytes; an i64 is one whose value fits 64 bits in two's complement.      *)
(***************************************************************************)
RECURSIVE NatBytes(_)
NatBytes(n) == IF n = 0 THEN <<>> ELSE <<n % 256>> \o NatBytes(n \div 256)

MagNorm(m) ==
    LET nz == {i \in 1..Len(m) : m[i] # 0}
    IN  IF nz = {} THEN <<>>
        ELSE SubSeq(m, 1, CHOOSE i \in nz : \A j \in nz : j <= i)

RECURSIVE MagMulSmall(_, _, _)
\* m * k + c for k and c below 2^16
MagMulSmall(m, k, c) ==
    IF m = <<>> THEN NatBytes(c)
    ELSE LET s == Head(m) * k + c
         IN  <<s % 256>> \o MagMulSmall(Tail(m), k, s \div 256)

RECURSIVE MagAddC(_, _, _)
MagAddC(a, b, c) ==
    IF a = <<>> /\ b = <<>> THEN NatBytes(c)
    ELSE LET x == IF a = <<>> THEN 0 ELSE Head(a)
             y == IF b = <<>> THEN 0 ELSE Head(b)
             s == x + y + c
         IN  <<s % 256>> \o MagAddC(IF a = <<>> THEN <<>> ELSE Tail(a),
                                    IF b = <<>> THEN <<>> ELSE Tail(b),
                                    s \div 256)
MagAdd(a, b) == MagAddC(a, b, 0)

MagLess(a, b) ==
    \/ Len(a) < Len(b)
    \/ /\ Len(a) = Len(b)
       /\ \E i \in 1..Len(a) :
            /\ a[i] < b[i]
            /\ \A j \in (i + 1)..Len(a) : a[j] = b[j]

RECURSIVE MagMulBytes(_, _)
\* a * b, b given by its bytes
MagMulBytes(a, b) ==
    IF a = <<>> \/ b = <<>> THEN <<>>
    ELSE LET rest == MagMulBytes(a, Tail(b))
             shifted == IF rest = <<>> THEN <<>> ELSE <<0>> \o rest
         IN  IF Head(b) = 0 THEN shifted
             ELSE MagAdd(MagMulSmall(a, Head(b), 0), shifted)

RECURSIVE MagDivSmall(_, _, _)
\* quotient (bytes i.. of it) and remainder of the bytes i.. of m divided
\* by d, for d below 2^16
MagDivSmall(m, d, i) ==
    IF i > Len(m) THEN [q |-> <<>>, r |-> 0]
    ELSE LET up == MagDivSmall(m, d, i + 1)
             cur == up.r * 256 + m[i]
         IN  [q |-> <<cur \div d>> \o up.q, r |-> cur % d]

\* the width of i64 in bytes
I64Bytes == 8
\* 2^64 - m for 0 < m < 2^64: the two's complement of m
MagNeg64(m) ==
    LET inv == [i \in 1..I64Bytes |-> 255 - (IF i <= Len(m) THEN m[i] ELSE 0)]
    IN  MagNorm(SubSeq(MagAdd(inv, <<1>>), 1, I64Bytes))
\* the magnitude of i64::MIN
I64MinMag == [i \in 1..I64Bytes |-> IF i = I64Bytes THEN 128 ELSE 0]

MkInt(neg, mag) == [neg |-> neg /\ mag # <<>>, mag |-> mag]
\* an i64 literal of the source
I64(n) ==
    IF n < 0 THEN MkInt(TRUE, NatBytes(-n)) ELSE MkInt(FALSE, NatBytes(n))
\* i64::MIN <= v <= i64::MAX
FitsI64(v) ==
    \/ MagLess(v.mag, I64MinMag)
    \/ v.neg /\ v.mag = I64MinMag

\* the two's complement value a wrapping operation leaves for the exact
\* result v
WrapI64(v) ==
    LET m == MagNorm(SubSeq(v.mag, 1,
                            IF Len(v.mag) < I64Bytes THEN Len(v.mag)
                            ELSE I64Bytes))
        u == IF v.neg /\ m # <<>> THEN MagNeg64(m) ELSE m
    IN  IF MagLess(u, I64MinMag) THEN MkInt(FALSE, u)
        ELSE MkInt(TRUE, MagNeg64(u))

\* PartialOrd for i64
I64Less(a, b) ==
    IF a.neg /\ ~b.neg THEN TRUE
    ELSE IF ~a.neg /\ b.neg THEN FALSE
    ELSE IF a.neg THEN MagLess(b.mag, a.mag)
    ELSE MagLess(a.mag, b.mag)

DigitChars == <<"0", "1", "2", "3", "4", "5", "6", "7", "8", "9",
                "a", "b", "c", "d", "e", "f">>
\* the four decimal digits of n < 10000
Dec4(n) ==
    << DigitChars[(n \div 1000) + 1], DigitChars[((n \div 100) % 10) + 1],
       DigitChars[((n \div 10) % 10) + 1], DigitChars[(n % 10) + 1] >>
RECURSIVE StripZeros(_)
StripZeros(s) ==
    IF Len(s) > 1 /\ Head(s) = "0" THEN StripZeros(Tail(s)) ELSE s
RECURSIVE MagDecimal(_)
\* the decimal digits of m, four at a time, with leading zeros
MagDecimal(m) ==
    IF m = <<>> THEN <<>>
    ELSE LET d == MagDivSmall(m, 10000, 1)
         IN  MagDecimal(MagNorm(d.q)) \o Dec4(d.r)

\* i64::to_string(): canonical decimal
I64ToString(v) ==
    IF v.mag = <<>> THEN <<"0">>
    ELSE (IF v.neg THEN <<"-">> ELSE <<>>) \o StripZeros(MagDecimal(v.mag))

\* char::to_digit(radix)
ToDigit(c, radix) ==
    IF \E d \in 0..(radix - 1) : DigitChars[d + 1] = c
    THEN Some(CHOOSE d \in 0..(radix - 1) : DigitChars[d + 1] = c)
    ELSE None

RECURSIVE ParseDigits(_, _, _, _)
\* the digit loop of i64::from_str_radix: checked_mul(radix) then
\* checked_add / checked_sub of the digit
ParseDigits(s, radix, neg, acc) ==
    IF s = <<>> THEN Some(MkInt(neg, acc))
    ELSE LET d == ToDigit(Head(s), radix)
         IN  IF d = None THEN None
             ELSE LET nxt == MagMulSmall(acc, radix, Unwrap(d))
                  IN  IF ~FitsI64(MkInt(neg, nxt)) THEN None
                      ELSE ParseDigits(Tail(s), radix, neg, nxt)

\* i64::from_str_radix(s, radix): an optional sign, then at least one digit
from_str_radix(s, radix) ==
    IF s = <<>> THEN None
    ELSE IF Head(s) \in {"+", "-"}
         THEN IF Tail(s) = <<>> THEN None
              ELSE ParseDigits(Tail(s), radix, Head(s) = "-", <<>>)
         ELSE ParseDigits(s, radix, FALSE, <<>>)

(***************************************************************************)
(* The Ast (ast.rs is consumed through the constructors validate.rs uses)  *)
(***************************************************************************)
NonSpecific == [t |-> "NonSpecific"]
LocalTag(name) == [t |-> "LocalTag", name |-> name]

Scalar(pos, tag, kind, text) ==
    [v |-> "Scalar", pos |-> pos, tag |-> tag, kind |-> kind, text |-> text]
Map(pos, tag, items) ==
    [v |-> "Map", pos |-> pos, tag |-> tag, items |-> items]
List(pos, tag, elems) ==
    [v |-> "List", pos |-> pos, tag |-> tag, elems |-> elems]
Null(pos, tag, kind) ==
    [v |-> "Null", pos |-> pos, tag |-> tag, kind |-> kind]

\* Ast::with_tag
with_tag(ast, tag) == [ast EXCEPT !.tag = tag]
\* Ast::void
void(pos) == Null(pos, NonSpecific, "Implicit")

\* BTreeMap
EmptyMap == <<>>
MapRemove(m, k) == [x \in (DOMAIN m) \ {k} |-> m[x]]
MapInsert(m, k, val) ==
    [x \in (DOMAIN m) \cup {k} |-> IF x = k THEN val ELSE m[x]]
MapGet(m, k) == IF k \in DOMAIN m THEN Some(m[k]) ELSE None
MinKey(ks) == CHOOSE k \in ks : \A o \in ks \ {k} : StrLess(k, o)
RECURSIVE SortedKeys(_)
\* the keys in the order BTreeMap::into_iter yields them
SortedKeys(ks) ==
    IF ks = {} THEN <<>>
    ELSE <<MinKey(ks)>> \o SortedKeys(ks \ {MinKey(ks)})

(***************************************************************************)
(* What a call of a validator produces: the returned Ast, the errors it    *)
(* passed to err.add_error in call order, whether it panicked, and (as     *)
(* history) the calls it made on its direct sub-validators.                *)
(***************************************************************************)
Ret(ast, errs, trace) ==
    [ast |-> ast, errs |-> errs, abort |-> FALSE, trace |-> trace]
Panic(ast, errs, trace) ==
    [ast |-> ast, errs |-> errs, abort |-> TRUE, trace |-> trace]
Called(who, arg) == [ev |-> "validate", who |-> who, arg |-> arg]
Defaulted(who) == [ev |-> "default", who |-> who]
Missing(who) == [ev |-> "missing", who |-> who]

(***************************************************************************)
(* validate.rs: Scalar                                                     *)
(***************************************************************************)
NullDefault(pos) == Null(pos, NonSpecific, "Implicit")

Scalar_default(self, pos) ==
    IF self.default = None /\ self.optional THEN Some(NullDefault(pos))
    ELSE IF self.default = None THEN None
    ELSE Some(Scalar(pos, NonSpecific, "Quoted", Unwrap(self.default)))

\* a Scalar::validate that answers a wrong shape with a synthesized null
Scalar_validate_synth(self, ast) ==
    IF ast.v = "Scalar"
    THEN Ret(Scalar(ast.pos, NonSpecific, ast.kind, ast.text), <<>>, <<>>)
    ELSE IF ast.v = "Null" /\ self.optional THEN Ret(ast, <<>>, <<>>)
    ELSE Ret(NullDefault(ast.pos),
             <<validation_error(ast.pos, "Value must be scalar")>>, <<>>)

Scalar_validate(self, ast) ==
    IF ast.v = "Scalar" THEN
        LET e1 == IF self.min_length # None
                     /\ ByteLen(ast.text) < Unwrap(self.min_length)
                  THEN <<validation_error_n(ast.pos,
                            "Value must be at least {} characters",
                            Unwrap(self.min_length))>>
                  ELSE <<>>
            e2 == IF self.max_length # None
                     /\ ByteLen(ast.text) > Unwrap(self.max_length)
                  THEN <<validation_error_n(ast.pos,
                            "Value must be at most {} characters",
                            Unwrap(self.max_length))>>
                  ELSE <<>>
        IN  Ret(Scalar(ast.pos, NonSpecific, ast.kind, ast.text),
                e1 \o e2, <<>>)
    ELSE IF ast.v = "Null" /\ self.optional THEN Ret(ast, <<>>, <<>>)
    ELSE Ret(ast, <<validation_error(ast.pos, "Value must be scalar")>>, <<>>)

(***************************************************************************)
(* validate.rs: Numeric                                                    *)
(***************************************************************************)
\* a table whose binary suffixes carry the decimal multipliers
NUMERIC_SUFFIXES_decimal ==
    << [suffix |-> <<"k">>, value |-> 1000],
       [suffix |-> <<"M">>, value |-> 1000000],
       [suffix |-> <<"G">>, value |-> 1000000000],
       [suffix |-> <<"k", "i">>, value |-> 1000],
       [suffix |-> <<"M", "i">>, value |-> 1000000],
       [suffix |-> <<"G", "i">>, value |-> 1000000000] >>
NUMERIC_SUFFIXES ==
    << [suffix |-> <<"k">>, value |-> 1000],
       [suffix |-> <<"M">>, value |-> 1000000],
       [suffix |-> <<"G">>, value |-> 1000000000],
       [suffix |-> <<"k", "i">>, value |-> 1024],
       [suffix |-> <<"M", "i">>, value |-> 1048576],
       [suffix |-> <<"G", "i">>, value |-> 1024 * 1024 * 1024] >>

RECURSIVE FindSuffix(_, _)
\* the for loop of from_numeric from table entry i on: the entry that
\* matched (0 when none did), or a panic when the slice does not start on a
\* char boundary
FindSuffix(src, i) ==
    IF i > Len(NUMERIC_SUFFIXES) THEN [panic |-> FALSE, idx |-> 0]
    ELSE LET suffix == NUMERIC_SUFFIXES[i].suffix
             start == ByteLen(src) - ByteLen(suffix)
         IN  IF ~(ByteLen(suffix) < ByteLen(src)) THEN FindSuffix(src, i + 1)
             ELSE IF ~IsCharBoundary(src, start)
                  THEN [panic |-> TRUE, idx |-> 0]
             ELSE IF SliceFrom(src, start) = suffix
                  THEN [panic |-> FALSE, idx |-> i]
             ELSE FindSuffix(src, i + 1)

\* x * mult on i64: a panic with overflow checks, two's complement wrapping
\* without
I64Mul(x, mult) ==
    LET exact == MkInt(x.neg, MagMulBytes(x.mag, NatBytes(mult)))
    IN  IF FitsI64(exact) THEN [panic |-> FALSE, val |-> Some(exact)]
        ELSE IF overflow_checks THEN [panic |-> TRUE, val |-> None]
        ELSE [panic |-> FALSE, val |-> Some(WrapI64(exact))]

\* from_numeric: [panic, val] with val the Option<i64> returned
from_numeric(text) ==
    LET m == FindSuffix(text, 1)
    IN  IF m.panic THEN [panic |-> TRUE, val |-> None]
        ELSE
        LET mult == IF m.idx = 0 THEN 1 ELSE NUMERIC_SUFFIXES[m.idx].value
            src == IF m.idx = 0 THEN text
                   ELSE SliceTo(text, ByteLen(text)
                                - ByteLen(NUMERIC_SUFFIXES[m.idx].suffix))
            dec == from_str_radix(src, 10)
        IN  IF dec # None THEN I64Mul(Unwrap(dec), mult)
            ELSE IF ~(ByteLen(src) > 2) THEN [panic |-> FALSE, val |-> None]
            ELSE IF ~IsCharBoundary(src, 2) THEN [panic |-> TRUE, val |-> None]
            ELSE LET prefix == SliceTo(src, 2)
                     rest == SliceFrom(src, 2)
                     val == IF prefix = <<"0", "x">>
                                THEN from_str_radix(rest, 16)
                            ELSE IF prefix = <<"0", "o">>
                                THEN from_str_radix(rest, 8)
                            ELSE IF prefix = <<"0", "b">>
                                THEN from_str_radix(rest, 2)
                            ELSE None
                 IN  IF val = None THEN [panic |-> FALSE, val |-> None]
                     ELSE I64Mul(Unwrap(val), mult)

Numeric_default(self, pos) ==
    IF self.default = None /\ self.optional THEN Some(NullDefault(pos))
    ELSE IF self.default = None THEN None
    ELSE Some(Scalar(pos, NonSpecific, "Quoted",
                     I64ToString(I64(Unwrap(self.default)))))

Numeric_validate(self, ast) ==
    IF ast.v = "Scalar" THEN
        LET n == from_numeric(ast.text)
        IN  IF n.panic THEN Panic(ast, <<>>, <<>>)
            ELSE IF n.val = None
            THEN Ret(Scalar(ast.pos, ast.tag, ast.kind, ast.text),
                     <<validation_error(ast.pos, "Value must be numeric")>>,
                     <<>>)
            ELSE
            LET val == Unwrap(n.val)
                e1 == IF self.min # None /\ I64Less(val, I64(Unwrap(self.min)))
                      THEN <<validation_error_n(ast.pos,
                                "Value must be at least {}", Unwrap(self.min))>>
                      ELSE <<>>
                e2 == IF self.max # None /\ I64Less(I64(Unwrap(self.max)), val)
                      THEN <<validation_error_n(ast.pos,
                                "Value must be at most {}", Unwrap(self.max))>>
                      ELSE <<>>
            IN  Ret(Scalar(ast.pos, NonSpecific, "Plain", I64ToString(val)),
                    e1 \o e2, <<>>)
    ELSE IF ast.v = "Null" /\ self.optional THEN Ret(ast, <<>>, <<>>)
    ELSE Ret(ast, <<validation_error(ast.pos, "Value must be scalar")>>, <<>>)

(***************************************************************************)
(* validate.rs: Directory                                                  *)
(***************************************************************************)
\* Path::is_absolute on unix: the path starts with the root
PathIsAbsolute(text) == text # <<>> /\ Head(text) = "/"

RECURSIVE SplitOn(_, _, _)
\* the pieces of text between separators sep; cur is the piece being read
SplitOn(text, sep, cur) ==
    IF text = <<>> THEN <<cur>>
    ELSE IF Head(text) = sep THEN <<cur>> \o SplitOn(Tail(text), sep, <<>>)
    ELSE SplitOn(Tail(text), sep, Append(cur, Head(text)))

\* the number of Component::ParentDir that Path::components yields
ParentDirCount(text) ==
    LET parts == SplitOn(text, "/", <<>>)
    IN  Cardinality({i \in 1..Len(parts) : parts[i] = <<".", ".">>})

Directory_default(self, pos) ==
    IF self.default = None /\ self.optional THEN Some(NullDefault(pos))
    ELSE IF self.default = None THEN None
    ELSE Some(Scalar(pos, NonSpecific, "Quoted", Unwrap(self.default)))

\* a validate that answers a null with the configured default
Directory_validate_defaulting(self, ast) ==
    IF ast.v = "Scalar" THEN
        LET errs ==
              IF self.absolute = Some(TRUE) THEN
                  IF ~PathIsAbsolute(ast.text)
                  THEN <<validation_error(ast.pos, "Path must be absolute")>>
                  ELSE <<>>
              ELSE IF self.absolute = Some(FALSE) THEN
                  IF PathIsAbsolute(ast.text)
                  THEN <<validation_error(ast.pos,
                                          "Path must not be absolute")>>
                  ELSE [i \in 1..ParentDirCount(ast.text) |->
                          validation_error(ast.pos,
                              "The /../ is not allowed in path")]
              ELSE <<>>
        IN  Ret(Scalar(ast.pos, NonSpecific, ast.kind, ast.text), errs, <<>>)
    ELSE IF ast.v = "Null" /\ (self.optional \/ self.default # None)
    THEN Ret(Unwrap(Directory_default(self, ast.pos)), <<>>, <<>>)
    ELSE Ret(ast, <<validation_error(ast.pos, "Path expected")>>, <<>>)

Directory_validate(self, ast) ==
    IF ast.v = "Scalar" THEN
        LET errs ==
              IF self.absolute = Some(TRUE) THEN
                  IF ~PathIsAbsolute(ast.text)
                  THEN <<validation_error(ast.pos, "Path must be absolute")>>
                  ELSE <<>>
              ELSE IF self.absolute = Some(FALSE) THEN
                  IF PathIsAbsolute(ast.text)
                  THEN <<validation_error(ast.pos,
                                          "Path must not be absolute")>>
                  ELSE [i \in 1..ParentDirCount(ast.text) |->
                          validation_error(ast.pos,
                              "The /../ is not allowed in path")]
              ELSE <<>>
        IN  Ret(Scalar(ast.pos, NonSpecific, ast.kind, ast.text), errs, <<>>)
    ELSE IF ast.v = "Null" /\ self.optional THEN Ret(ast, <<>>, <<>>)
    ELSE Ret(ast, <<validation_error(ast.pos, "Path expected")>>, <<>>)

(***************************************************************************)
(* validate.rs: the composite validators.  A from_scalar hook is one of    *)
(* the parsers the tests of validate.rs define.                            *)
(***************************************************************************)
RECURSIVE Default(_, _), Validate(_, _), Structure_default_members(_, _, _, _),
          Structure_members(_, _, _, _, _, _), Enum_plain(_, _, _),
          Enum_tagged(_, _, _, _), Mapping_entries(_, _, _, _, _, _),
          Sequence_elements(_, _, _, _, _)

\* value_parser / parse_default of the tests: the scalar under one key
MapParser(key, ast) ==
    MapInsert(EmptyMap, key, Scalar(ast.pos, NonSpecific, ast.kind, ast.text))
\* split of the tests: the pieces of the scalar between spaces
ListParser(ast) ==
    LET parts == SplitOn(ast.text, " ", <<>>)
    IN  [i \in 1..Len(parts) |->
            Scalar(ast.pos, NonSpecific, "Plain", parts[i])]

\* the loop of Structure::default from member i on
Structure_default_members(self, pos, i, map) ==
    IF i > Len(self.members) THEN map
    ELSE LET d == Default(self.members[i].validator, pos)
         IN  Structure_default_members(self, pos, i + 1,
                IF d = None THEN map
                ELSE MapInsert(map, self.members[i].name, Unwrap(d)))

\* a default that is the empty map, without the members' defaults
Structure_default_empty(self, pos) ==
    IF self.optional THEN Some(NullDefault(pos))
    ELSE Some(Map(pos, NonSpecific, EmptyMap))

Structure_default(self, pos) ==
    IF self.optional THEN Some(NullDefault(pos))
    ELSE Some(Map(pos, NonSpecific,
                  Structure_default_members(self, pos, 1, EmptyMap)))

\* the HashSet of keys Structure::validate reports as unexpected
\* the key set without the starts_with("_") filter
UnexpectedKeys_unfiltered(self, map) ==
    DOMAIN map \ {self.members[i].name : i \in 1..Len(self.members)}
UnexpectedKeys(self, map) ==
    {k \in DOMAIN map : ~StartsWithUnderscore(k)}
        \ {self.members[i].name : i \in 1..Len(self.members)}

\* a tail that reports the unexpected keys ahead of the member errors
Structure_finish_keysfirst(self, pos, map, errs, trace) ==
    LET keys == UnexpectedKeys(self, map)
    IN  Ret(Map(pos, NonSpecific, map),
            IF Cardinality(keys) > 0
            THEN <<validation_error_k(pos,
                        "Keys {:?} are not expected", keys)>> \o errs
            ELSE errs,
            trace)
\* the tail of Structure::validate after the member loop
Structure_finish(self, pos, map, errs, trace) ==
    LET keys == UnexpectedKeys(self, map)
    IN  Ret(Map(pos, NonSpecific, map),
            IF Cardinality(keys) > 0
            THEN Append(errs, validation_error_k(pos,
                                "Keys {:?} are not expected", keys))
            ELSE errs,
            trace)

\* a member loop that fills a member without default with a null, silently
Structure_members_nullfill(self, pos, i, map, errs, trace) ==
    IF i > Len(self.members) THEN Structure_finish(self, pos, map, errs, trace)
    ELSE
    LET k == self.members[i].name
        validator == self.members[i].validator
        first == MapGet(map, k)
        map1 == MapRemove(map, k)
        second == MapGet(map1, StrReplaceUnderscore(k))
        map2 == MapRemove(map1, StrReplaceUnderscore(k))
        found == IF first # None THEN first ELSE second
    IN  IF found # None THEN
            LET r == Validate(validator, Unwrap(found))
                t == Append(trace, Called(i, Unwrap(found)))
            IN  IF r.abort
                THEN Panic(Map(pos, NonSpecific, map2), errs \o r.errs, t)
                ELSE Structure_members(self, pos, i + 1,
                        MapInsert(map2, k, r.ast), errs \o r.errs, t)
        ELSE
            LET d == Default(validator, pos)
            IN  Structure_members(self, pos, i + 1,
                    MapInsert(map2, k,
                        IF d # None THEN Unwrap(d) ELSE NullDefault(pos)),
                    errs, Append(trace, Defaulted(i)))

\* a member loop that looks the alias up only when the name is absent
Structure_members_lazy(self, pos, i, map, errs, trace) ==
    IF i > Len(self.members) THEN Structure_finish(self, pos, map, errs, trace)
    ELSE
    LET k == self.members[i].name
        validator == self.members[i].validator
        first == MapGet(map, k)
        map1 == MapRemove(map, k)
        second == MapGet(map1, StrReplaceUnderscore(k))
        map2 == IF first # None THEN map1
                ELSE MapRemove(map1, StrReplaceUnderscore(k))
        found == IF first # None THEN first ELSE second
    IN  IF found # None THEN
            LET r == Validate(validator, Unwrap(found))
                t == Append(trace, Called(i, Unwrap(found)))
            IN  IF r.abort
                THEN Panic(Map(pos, NonSpecific, map2), errs \o r.errs, t)
                ELSE Structure_members(self, pos, i + 1,
                        MapInsert(map2, k, r.ast), errs \o r.errs, t)
        ELSE
            LET d == Default(validator, pos)
            IN  IF d # None
                THEN Structure_members(self, pos, i + 1,
                        MapInsert(map2, k, Unwrap(d)), errs,
                        Append(trace, Defaulted(i)))
                ELSE Structure_members(self, pos, i + 1, map2,
                        Append(errs, validation_error_s(pos,
                                        "Field {} is expected", k)),
                        Append(trace, Missing(i)))

\* the member loop of Structure::validate from member i on
Structure_members(self, pos, i, map, errs, trace) ==
    IF i > Len(self.members) THEN Structure_finish(self, pos, map, errs, trace)
    ELSE
    LET k == self.members[i].name
        validator == self.members[i].validator
        first == MapGet(map, k)
        map1 == MapRemove(map, k)
        second == MapGet(map1, StrReplaceUnderscore(k))
        map2 == MapRemove(map1, StrReplaceUnderscore(k))
        found == IF first # None THEN first ELSE second
    IN  IF found # None THEN
            LET r == Validate(validator, Unwrap(found))
                t == Append(trace, Called(i, Unwrap(found)))
            IN  IF r.abort
                THEN Panic(Map(pos, NonSpecific, map2), errs \o r.errs, t)
                ELSE Structure_members(self, pos, i + 1,
                        MapInsert(map2, k, r.ast), errs \o r.errs, t)
        ELSE
            LET d == Default(validator, pos)
            IN  IF d # None
                THEN Structure_members(self, pos, i + 1,
                        MapInsert(map2, k, Unwrap(d)), errs,
                        Append(trace, Defaulted(i)))
                ELSE Structure_members(self, pos, i + 1, map2,
                        Append(errs, validation_error_s(pos,
                                        "Field {} is expected", k)),
                        Append(trace, Missing(i)))

Structure_validate(self, ast) ==
    IF ast.v = "Map"
    THEN Structure_members(self, ast.pos, 1, ast.items, <<>>, <<>>)
    ELSE IF ast.v = "Null" /\ ast.kind = "Implicit"
    THEN Ret(Unwrap(Structure_default(self, ast.pos)), <<>>, <<>>)
    ELSE IF ast.v = "Scalar" /\ self.from_scalar # None
    THEN Structure_members(self, ast.pos, 1,
            MapParser(Unwrap(self.from_scalar), ast), <<>>, <<>>)
    ELSE Ret(ast, <<validation_error(ast.pos, "Value must be mapping")>>,
             <<>>)

Enum_default(self, pos) ==
    IF self.default_tag # None /\ self.optional
    THEN Some(Null(pos, LocalTag(Unwrap(self.default_tag)), "Implicit"))
    ELSE IF self.optional THEN Some(Null(pos, NonSpecific, "Implicit"))
    ELSE None

\* the second loop of Enum::validate from option i on, tag_name resolved
Enum_tagged(self, ast, tag_name, i) ==
    IF i > Len(self.options)
    THEN Ret(ast, <<validation_error_s(ast.pos, "The tag {} is not expected",
                                       tag_name)>>, <<>>)
    ELSE IF self.options[i].name = tag_name
    THEN LET r == Validate(self.options[i].validator, ast)
         IN  [r EXCEPT !.ast = with_tag(r.ast, LocalTag(tag_name)),
                       !.trace = <<Called(i, ast)>>]
    ELSE Enum_tagged(self, ast, tag_name, i + 1)

\* what Enum::validate does once the plain-name loop found no option
Enum_untagged(self, ast) ==
    IF self.default_tag # None
    THEN Enum_tagged(self, ast, Unwrap(self.default_tag), 1)
    ELSE Ret(ast, <<validation_error_k(ast.pos,
                        "One of the tags {:?} expected",
                        {self.options[i].name : i \in 1..Len(self.options)})>>,
             <<>>)

\* a plain-name loop that hands the scalar itself to the option's validator
Enum_plain_onscalar(self, ast, i) ==
    IF i > Len(self.options) THEN Enum_untagged(self, ast)
    ELSE IF self.options[i].name = ast.text
    THEN LET r == Validate(self.options[i].validator, ast)
         IN  [r EXCEPT !.ast = with_tag(r.ast, LocalTag(self.options[i].name)),
                       !.trace = <<Called(i, ast)>>]
    ELSE Enum_plain(self, ast, i + 1)

\* the plain-name loop of Enum::validate from option i on
Enum_plain(self, ast, i) ==
    IF i > Len(self.options) THEN Enum_untagged(self, ast)
    ELSE IF self.options[i].name = ast.text
    THEN LET arg == Null(ast.pos, NonSpecific, "Implicit")
             r == Validate(self.options[i].validator, arg)
         IN  [r EXCEPT !.ast = with_tag(r.ast, LocalTag(self.options[i].name)),
                       !.trace = <<Called(i, arg)>>]
    ELSE Enum_plain(self, ast, i + 1)

\* a dispatch that tries the plain-name shortcut before looking at the tag
Enum_validate_plainfirst(self, ast) ==
    IF self.allow_plain /\ ast.v = "Scalar" THEN Enum_plain(self, ast, 1)
    ELSE IF ast.tag.t = "LocalTag"
    THEN Enum_tagged(self, ast, ast.tag.name, 1)
    ELSE Enum_untagged(self, ast)

Enum_validate(self, ast) ==
    IF ast.tag.t = "LocalTag" THEN Enum_tagged(self, ast, ast.tag.name, 1)
    ELSE IF self.allow_plain /\ ast.v = "Scalar" THEN Enum_plain(self, ast, 1)
    ELSE Enum_untagged(self, ast)

Mapping_default(self, pos) == Some(Map(pos, NonSpecific, EmptyMap))

\* an entry loop that stores each value under the key as written
Mapping_entries_rawkey(self, map, keys, i, acc, out) ==
    IF i > Len(keys) THEN [out EXCEPT !.ast.items = acc]
    ELSE
    LET k == keys[i]
        karg == Scalar(map[k].pos, NonSpecific, "Plain", k)
        kr == Validate(self.key_element, karg)
        t1 == Append(out.trace, Called("key", karg))
        e1 == out.errs \o kr.errs
    IN  IF kr.abort \/ kr.ast.v # "Scalar"
        THEN [out EXCEPT !.ast.items = acc, !.errs = e1, !.trace = t1,
                         !.abort = TRUE]
        ELSE
        LET vr == Validate(self.value_element, map[k])
            t2 == Append(t1, Called("value", map[k]))
            e2 == e1 \o vr.errs
        IN  IF vr.abort
            THEN [out EXCEPT !.ast.items = acc, !.errs = e2, !.trace = t2,
                             !.abort = TRUE]
            ELSE Mapping_entries(self, map, keys, i + 1,
                    MapInsert(acc, k, vr.ast),
                    [out EXCEPT !.errs = e2, !.trace = t2])

\* the loop of Mapping::validate over the entries keys[i..] of map
Mapping_entries(self, map, keys, i, acc, out) ==
    IF i > Len(keys) THEN [out EXCEPT !.ast.items = acc]
    ELSE
    LET k == keys[i]
        karg == Scalar(map[k].pos, NonSpecific, "Plain", k)
        kr == Validate(self.key_element, karg)
        t1 == Append(out.trace, Called("key", karg))
        e1 == out.errs \o kr.errs
    IN  IF kr.abort \/ kr.ast.v # "Scalar"
        THEN [out EXCEPT !.ast.items = acc, !.errs = e1, !.trace = t1,
                         !.abort = TRUE]
        ELSE
        LET vr == Validate(self.value_element, map[k])
            t2 == Append(t1, Called("value", map[k]))
            e2 == e1 \o vr.errs
        IN  IF vr.abort
            THEN [out EXCEPT !.ast.items = acc, !.errs = e2, !.trace = t2,
                             !.abort = TRUE]
            ELSE Mapping_entries(self, map, keys, i + 1,
                    MapInsert(acc, kr.ast.text, vr.ast),
                    [out EXCEPT !.errs = e2, !.trace = t2])

Mapping_validate(self, ast) ==
    IF ast.v = "Map"
    THEN Mapping_entries(self, ast.items, SortedKeys(DOMAIN ast.items), 1,
            EmptyMap, Ret(Map(ast.pos, NonSpecific, EmptyMap), <<>>, <<>>))
    ELSE IF ast.v = "Null" /\ ast.kind = "Implicit"
    THEN Ret(Map(ast.pos, NonSpecific, EmptyMap), <<>>, <<>>)
    ELSE IF ast.v = "Scalar" /\ self.from_scalar # None
    THEN LET map == MapParser(Unwrap(self.from_scalar), ast)
         IN  Mapping_entries(self, map, SortedKeys(DOMAIN map), 1, EmptyMap,
                Ret(Map(ast.pos, NonSpecific, EmptyMap), <<>>, <<>>))
    ELSE Ret(ast, <<validation_error(ast.pos, "Value must be mapping")>>,
             <<>>)

Sequence_default(self, pos) == Some(List(pos, NonSpecific, <<>>))

\* a loop that gives up at the first element that reported an error
Sequence_elements_stop(self, children, i, acc, out) ==
    IF i > Len(children) THEN [out EXCEPT !.ast.elems = acc]
    ELSE LET r == Validate(self.element, children[i])
             t == Append(out.trace, Called("element", children[i]))
             e == out.errs \o r.errs
         IN  IF r.abort
             THEN [out EXCEPT !.ast.elems = acc, !.errs = e, !.trace = t,
                              !.abort = TRUE]
             ELSE IF r.errs # <<>>
             THEN [out EXCEPT !.ast.elems = Append(acc, r.ast), !.errs = e,
                              !.trace = t]
             ELSE Sequence_elements(self, children, i + 1,
                     Append(acc, r.ast), [out EXCEPT !.errs = e, !.trace = t])

\* the loop of Sequence::validate from child i on
Sequence_elements(self, children, i, acc, out) ==
    IF i > Len(children) THEN [out EXCEPT !.ast.elems = acc]
    ELSE LET r == Validate(self.element, children[i])
             t == Append(out.trace, Called("element", children[i]))
             e == out.errs \o r.errs
         IN  IF r.abort
             THEN [out EXCEPT !.ast.elems = acc, !.errs = e, !.trace = t,
                              !.abort = TRUE]
             ELSE Sequence_elements(self, children, i + 1,
                     Append(acc, r.ast), [out EXCEPT !.errs = e, !.trace = t])

Sequence_validate(self, ast) ==
    IF ast.v = "List"
    THEN Sequence_elements(self, ast.elems, 1, <<>>,
            Ret(List(ast.pos, NonSpecific, <<>>), <<>>, <<>>))
    ELSE IF ast.v = "Null" /\ ast.kind = "Implicit"
    THEN Ret(List(ast.pos, NonSpecific, <<>>), <<>>, <<>>)
    ELSE IF ast.v = "Scalar" /\ self.from_scalar # None
    THEN Sequence_elements(self, ListParser(ast), 1, <<>>,
            Ret(List(ast.pos, NonSpecific, <<>>), <<>>, <<>>))
    ELSE Ret(ast, <<validation_error(ast.pos, "Value must be sequence")>>,
             <<>>)

Anything_validate(self, ast) == Ret(ast, <<>>, <<>>)

Nothing_validate(self, ast) ==
    IF ast.v = "Null" THEN Ret(ast, <<>>, <<>>)
    ELSE Ret(ast, <<parse_error(ast.pos, "Null expected, {} found")>>, <<>>)

\* Validator::default through the Box<Validator>
Default(self, pos) ==
    CASE self.ty = "Scalar" -> Scalar_default(self, pos)
      [] self.ty = "Numeric" -> Numeric_default(self, pos)
      [] self.ty = "Directory" -> Directory_default(self, pos)
      [] self.ty = "Structure" -> Structure_default(self, pos)
      [] self.ty = "Enum" -> Enum_default(self, pos)
      [] self.ty = "Mapping" -> Mapping_default(self, pos)
      [] self.ty = "Sequence" -> Sequence_default(self, pos)
      [] self.ty = "Anything" -> None
      [] self.ty = "Nothing" -> None

\* Validator::validate through the Box<Validator>
Validate(self, ast) ==
    CASE self.ty = "Scalar" -> Scalar_validate(self, ast)
      [] self.ty = "Numeric" -> Numeric_validate(self, ast)
      [] self.ty = "Directory" -> Directory_validate(self, ast)
      [] self.ty = "Structure" -> Structure_validate(self, ast)
      [] self.ty = "Enum" -> Enum_validate(self, ast)
      [] self.ty = "Mapping" -> Mapping_validate(self, ast)
      [] self.ty = "Sequence" -> Sequence_validate(self, ast)
      [] self.ty = "Anything" -> Anything_validate(self, ast)
      [] self.ty = "Nothing" -> Nothing_validate(self, ast)

(***************************************************************************)
(* errors.rs: ErrorCollector.  cell is None once a terminal call took the  *)
(* list.  A call that unwraps None panics and leaves the cell as it was.   *)
(***************************************************************************)
Values == {"v1", "v2"}
NoRet == [variant |-> "None", val |-> "", list |-> <<>>, ast |-> void(0)]
RetUnit == [variant |-> "Unit", val |-> "", list |-> <<>>, ast |-> void(0)]
RetList(lst) ==
    [variant |-> "List", val |-> "", list |-> lst, ast |-> void(0)]
RetOk(val) == [variant |-> "Ok", val |-> val, list |-> <<>>, ast |-> void(0)]
RetErr(lst) == [variant |-> "Err", val |-> "", list |-> lst, ast |-> void(0)]
RetAst(ast) == [variant |-> "Ast", val |-> "", list |-> <<>>, ast |-> ast]
Call(op, h, arg, panicked, ret) ==
    [op |-> op, handle |-> h, arg |-> arg, panicked |-> panicked, ret |-> ret]

\* ErrorCollector::new
ErrorCollector_new == Some(<<>>)

\* an add_error that ignores the error once the list was taken
ErrorCollector_add_error_silent(c, err) ==
    IF c = None THEN [panicked |-> FALSE, cell |-> c, ret |-> RetUnit]
    ELSE [panicked |-> FALSE,
          cell |-> Some(ErrorList_add_error(Unwrap(c), err)),
          ret |-> RetUnit]
\* ErrorCollector::add_error: [panicked, cell, ret]
ErrorCollector_add_error(c, err) ==
    IF c = None THEN [panicked |-> TRUE, cell |-> c, ret |-> NoRet]
    ELSE [panicked |-> FALSE,
          cell |-> Some(ErrorList_add_error(Unwrap(c), err)),
          ret |-> RetUnit]

\* ErrorCollector::into_fatal
ErrorCollector_into_fatal(c, err) ==
    IF c = None THEN [panicked |-> TRUE, cell |-> None, ret |-> NoRet]
    ELSE [panicked |-> FALSE, cell |-> None,
          ret |-> RetList(ErrorList_add_error(Unwrap(c), err))]

\* an into_result that tolerates one error
ErrorCollector_into_result_lenient(c, val) ==
    IF c = None THEN [panicked |-> TRUE, cell |-> None, ret |-> NoRet]
    ELSE [panicked |-> FALSE, cell |-> None,
          ret |-> IF Len(Unwrap(c)) > 1 THEN RetErr(Unwrap(c))
                  ELSE RetOk(val)]
\* ErrorCollector::into_result
ErrorCollector_into_result(c, val) ==
    IF c = None THEN [panicked |-> TRUE, cell |-> None, ret |-> NoRet]
    ELSE [panicked |-> FALSE, cell |-> None,
          ret |-> IF Len(Unwrap(c)) > 0 THEN RetErr(Unwrap(c))
                  ELSE RetOk(val)]

\* ErrorCollector::unwrap
ErrorCollector_unwrap(c) ==
    IF c = None THEN [panicked |-> TRUE, cell |-> None, ret |-> NoRet]
    ELSE [panicked |-> FALSE, cell |-> None, ret |-> RetList(Unwrap(c))]

(***************************************************************************)
(* options.rs: the include handler of Options::default()                   *)
(***************************************************************************)
\* Include::File { filename }
Include_File(filename) == [kind |-> "File", filename |-> filename]

\* a handler that ends the session with the error
unsupported_include_fatal(pos, incl, c, options) ==
    LET e == preprocess_error(pos, "Includes are not supported")
        r == ErrorCollector_into_fatal(c, e)
    IN  IF r.panicked
        THEN [panicked |-> TRUE, cell |-> r.cell, ret |-> NoRet, errs |-> <<>>]
        ELSE [panicked |-> FALSE, cell |-> r.cell, ret |-> RetAst(void(pos)),
              errs |-> <<e>>]
\* unsupported_include: [panicked, cell, ret, errs], errs the errors it
\* added to the collector
unsupported_include(pos, incl, c, options) ==
    LET e == preprocess_error(pos, "Includes are not supported")
        r == ErrorCollector_add_error(c, e)
    IN  IF r.panicked
        THEN [panicked |-> TRUE, cell |-> r.cell, ret |-> NoRet, errs |-> <<>>]
        ELSE [panicked |-> FALSE, cell |-> r.cell, ret |-> RetAst(void(pos)),
              errs |-> <<e>>]

\* Options::default()
Options_default == [include_handler |-> "unsupported_include"]

\* DoInclude::include for Options: (self.include_handler)(pos, incl, err, self)
DoInclude_include(self, pos, incl, c) ==
    CASE self.include_handler = "unsupported_include" ->
            unsupported_include(pos, incl, c, self)

RECURSIVE AddAll(_, _)
\* the add_error calls of one validate call, in order
AddAll(c, errs) ==
    IF errs = <<>> THEN [panicked |-> FALSE, cell |-> c, ret |-> RetUnit]
    ELSE LET r == ErrorCollector_add_error(c, Head(errs))
         IN  IF r.panicked THEN r ELSE AddAll(r.cell, Tail(errs))

\* the errors a user of the collector reports
UserErrors ==
    { MkError("ParseError", 1, "user error", 0, <<>>, {}),
      MkError("DecodeError", 2, "user error", 0, <<>>, {}) }

NoRes == Ret(void(0), <<>>, <<>>)

\* clone() of a handle: one more handle on the same cell
Clone ==
    /\ handles < MaxHandles
    /\ handles' = handles + 1
    /\ UNCHANGED <<cell, last, added, steps, overflow_checks, built, schema, input,
                   pc, res, res2>>

AddError ==
    /\ steps < MaxSteps
    /\ \E h \in 1..handles, err \in UserErrors :
         LET r == ErrorCollector_add_error(cell, err)
         IN  /\ cell' = r.cell
             /\ last' = Call("add_error", h, <<err>>, r.panicked, r.ret)
             /\ added' = IF r.panicked THEN added ELSE Append(added, err)
    /\ steps' = steps + 1
    /\ UNCHANGED <<handles, overflow_checks, built, schema, input, pc, res, res2>>

IntoFatal ==
    /\ steps < MaxSteps
    /\ \E h \in 1..handles, err \in UserErrors :
         LET r == ErrorCollector_into_fatal(cell, err)
         IN  /\ cell' = r.cell
             /\ last' = Call("into_fatal", h, <<err>>, r.panicked, r.ret)
    /\ steps' = steps + 1
    /\ UNCHANGED <<handles, added, overflow_checks, built, schema, input, pc, res,
                   res2>>

IntoResult ==
    /\ steps < MaxSteps
    /\ \E h \in 1..handles, val \in Values :
         LET r == ErrorCollector_into_result(cell, val)
         IN  /\ cell' = r.cell
             /\ last' = Call("into_result", h, <<val>>, r.panicked, r.ret)
    /\ steps' = steps + 1
    /\ UNCHANGED <<handles, added, overflow_checks, built, schema, input, pc, res,
                   res2>>

UnwrapList ==
    /\ steps < MaxSteps
    /\ \E h \in 1..handles :
         LET r == ErrorCollector_unwrap(cell)
         IN  /\ cell' = r.cell
             /\ last' = Call("unwrap", h, <<>>, r.panicked, r.ret)
    /\ steps' = steps + 1
    /\ UNCHANGED <<handles, added, overflow_checks, built, schema, input, pc, res,
                   res2>>

\* the include requests of a session
IncludePositions == {1, 2}
Includes == {Include_File(<<"a">>)}

\* an include request handled with the default options
DoInclude ==
    /\ steps < MaxSteps
    /\ \E h \in 1..handles, pos \in IncludePositions, incl \in Includes :
         LET r == DoInclude_include(Options_default, pos, incl, cell)
         IN  /\ cell' = r.cell
             /\ last' = Call("include", h, <<pos, incl>>, r.panicked, r.ret)
             /\ added' = added \o r.errs
    /\ steps' = steps + 1
    /\ UNCHANGED <<handles, overflow_checks, built, schema, input, pc, res, res2>>

\* one call schema.validate(ast, &err): the errors go to the collector; the
\* call panics when the validator does or when the collector is consumed
ValidateCall(ast, r) ==
    LET a == AddAll(cell, r.errs)
    IN  /\ cell' = a.cell
        /\ added' = IF a.panicked THEN added ELSE added \o r.errs
        /\ last' = Call("validate", 1, <<ast>>, a.panicked \/ r.abort, NoRet)
        /\ steps' = steps + 1

RunValidate ==
    /\ pc \in {"start", "defaulted"}
    /\ LET r == Validate(schema, input)
       IN  /\ ValidateCall(input, r)
           /\ res' = r
    /\ pc' = IF last'.panicked THEN "panicked"
             ELSE IF pc = "start" THEN "validated" ELSE "default_validated"
    /\ UNCHANGED <<handles, overflow_checks, built, schema, input, res2>>

\* validate the tree the first call returned once more
Revalidate ==
    /\ pc = "validated"
    /\ LET r == Validate(schema, res.ast)
       IN  /\ ValidateCall(res.ast, r)
           /\ res2' = r
    /\ pc' = IF last'.panicked THEN "panicked" ELSE "revalidated"
    /\ UNCHANGED <<handles, overflow_checks, built, schema, input, res>>

\* take schema.default(pos) as the tree to validate
TakeDefault ==
    /\ pc = "start"
    /\ Default(schema, input.pos) # None
    /\ input' = Unwrap(Default(schema, input.pos))
    /\ pc' = "defaulted"
    /\ UNCHANGED <<cell, handles, last, added, steps, overflow_checks, built, schema,
                   res, res2>>

(***************************************************************************)
(* Sessions on the collector: the schema of parse_str (test_no_fields,     *)
(* test_only_int), a map with or without the members, and any             *)
(* interleaving of calls on the handles.                                   *)
(***************************************************************************)
PlainScalar(pos, text) == Scalar(pos, NonSpecific, "Plain", text)
MapOf(pos, keys, val(_)) == Map(pos, NonSpecific, [k \in keys |-> val(k)])

TestStructSchema ==
    StructureV(<< Member(<<"a">>, NumericV(FALSE, Some(123), None, None)),
                  Member(<<"b">>, ScalarV(FALSE, None, None, None)) >>,
               FALSE, None)
SessionInputs ==
    { Map(1, NonSpecific, EmptyMap),
      MapOf(1, {<<"a">>, <<"b">>}, LAMBDA k : PlainScalar(2, <<"7">>)),
      MapOf(1, {<<"b">>}, LAMBDA k : PlainScalar(2, <<"x">>)),
      MapOf(1, {<<"a">>, <<"c">>}, LAMBDA k : PlainScalar(2, <<"x">>)) }

InitCollector ==
    /\ cell = ErrorCollector_new
    /\ handles = 1
    /\ last = Call("new", 1, <<>>, FALSE, NoRet)
    /\ added = <<>>
    /\ steps = 0
    /\ overflow_checks \in BOOLEAN
    /\ pc = "start"
    /\ res = NoRes
    /\ res2 = NoRes
    /\ built = <<>>

Init ==
    /\ InitCollector
    /\ schema = TestStructSchema
    /\ input \in SessionInputs

Next ==
    \/ Clone
    \/ AddError
    \/ IntoFatal
    \/ IntoResult
    \/ UnwrapList
    \/ RunValidate
    \/ DoInclude

Spec == Init /\ [][Next]_vars

(***************************************************************************)
(* Validation sessions: a schema, a tree, a fresh collector; the tree (or   *)
(* the schema's default) is validated, and the result validated again.     *)
(***************************************************************************)
MaxMembers == 2
MaxElems == 2

Tags == {NonSpecific, LocalTag(<<"a", "b">>)}
Kinds == {"Plain", "Quoted"}
NullKinds == {"Implicit", "Explicit"}

\* sequences of at most n (name, validator) pairs with distinct names
NamedSeqs(choices, n) ==
    UNION { { q \in [1..len -> choices] :
                \A i, j \in 1..len : q[i].name = q[j].name => i = j }
            : len \in 0..n }
\* maps whose value under key k, when present, is in choice[k]
MapsFrom(choice) ==
    UNION { { m \in [ks -> UNION {choice[k] : k \in ks}] :
                \A k \in ks : m[k] \in choice[k] }
            : ks \in SUBSET (DOMAIN choice) }
\* lists of at most n elements
ListsOf(elems, n) == UNION { [1..len -> elems] : len \in 0..n }

ScalarSchemas ==
    { ScalarV(o, d, mn, mx) :
        o \in BOOLEAN, d \in {None, Some(<<"a", "b">>)},
        mn \in {None, Some(3)}, mx \in {None, Some(1)} }
NumericSchemas ==
    { NumericV(o, d, mn, mx) :
        o \in BOOLEAN, d \in {None, Some(5)},
        mn \in {None, Some(10)}, mx \in {None, Some(20)} }
DirectorySchemas ==
    { DirectoryV(o, d, a) :
        o \in BOOLEAN, d \in {None, Some(<<"/", "a">>)},
        a \in {None, Some(TRUE), Some(FALSE)} }
LeafSchemas ==
    ScalarSchemas \cup NumericSchemas \cup DirectorySchemas
        \cup {AnythingV, NothingV}

LeafTexts ==
    { <<>>, <<"7">>, <<"1", "2">>, <<"2", "5">>, <<"a", "b">>,
      <<"a", "b", "c">>, <<"1", "k">>, <<"0", "x", "c">>, <<"/", "a">>,
      <<"a", "/", "b">>, <<".", ".", "/", "a">>,
      <<"a", "/", ".", ".", "/", ".", ".">>, <<"a", "U+00E9">> }
\* trees that are not maps or lists of interest: the shapes a leaf sees
ShapeInputs ==
    { Null(1, t, k) : t \in Tags, k \in NullKinds }
        \cup { Map(1, NonSpecific, EmptyMap),
               MapOf(1, {<<"x">>}, LAMBDA k : PlainScalar(2, <<"7">>)),
               List(1, NonSpecific, <<>>),
               List(1, NonSpecific, <<PlainScalar(2, <<"7">>)>>) }
LeafInputs ==
    { Scalar(1, t, k, text) : t \in Tags, k \in Kinds, text \in LeafTexts }
        \cup ShapeInputs

\* the validators put under a member, an option or an element
SubValidators ==
    { NumericV(FALSE, Some(5), None, None),
      NumericV(TRUE, None, Some(10), None),
      ScalarV(FALSE, None, None, None),
      ScalarV(TRUE, Some(<<"a", "b">>), Some(3), None),
      DirectoryV(TRUE, None, Some(FALSE)),
      NothingV }
SubInputs ==
    { PlainScalar(2, <<"7">>), PlainScalar(2, <<"a", "b", "c">>),
      Null(2, NonSpecific, "Implicit") }

StructureFlags ==
    { <<FALSE, None>>, <<TRUE, None>>, <<FALSE, Some(<<"c">>)>> }
MixedStructures ==
    { StructureV(ms, f[1], f[2]) :
        ms \in NamedSeqs({ Member(n, val) :
                             n \in {<<"a", "_", "b">>, <<"c">>},
                             val \in SubValidators }, MaxMembers),
        f \in StructureFlags }
MixedStructureInputs ==
    { Map(1, NonSpecific, m) :
        m \in MapsFrom([k \in {<<"a", "_", "b">>, <<"c">>, <<"x">>} |->
                          IF k = <<"x">> THEN {PlainScalar(2, <<"7">>)}
                          ELSE SubInputs]) }
        \cup ShapeInputs \cup {PlainScalar(1, <<"7">>)}

OptionValidators ==
    { NothingV, NumericV(TRUE, Some(7), None, None),
      ScalarV(TRUE, None, None, None),
      StructureV(<<Member(<<"c">>, NumericV(FALSE, Some(5), None, None))>>,
                 TRUE, None),
      EnumV(<<Member(<<"a", "b">>, NothingV)>>, FALSE, None, FALSE) }
\* the Enum values the builder methods can produce: never allow_plain
\* together with a default_tag
MixedEnums ==
    { EnumV(os, o, f[1], f[2]) :
        os \in NamedSeqs({ Member(n, val) :
                             n \in {<<"a", "b">>, <<"c">>},
                             val \in OptionValidators }, MaxMembers),
        o \in BOOLEAN,
        f \in { <<None, FALSE>>, <<None, TRUE>>, <<Some(<<"a", "b">>), FALSE>>,
                <<Some(<<"c">>), FALSE>> } }
EnumInputs ==
    { Null(1, t, "Implicit") : t \in Tags \cup {LocalTag(<<"c">>)} }
        \cup { Scalar(1, t, "Plain", text) :
                 t \in Tags, text \in {<<"a", "b">>, <<"c">>, <<"7">>} }
        \cup { Map(1, LocalTag(<<"c">>), EmptyMap),
               List(1, NonSpecific, <<>>) }

MixedMappings ==
    { MappingV(k, val, f) :
        k \in { ScalarV(FALSE, None, None, Some(1)),
                NumericV(FALSE, None, None, None) },
        val \in { NumericV(FALSE, Some(5), None, None),
                  ScalarV(FALSE, None, Some(3), None) },
        f \in {None, Some(<<"c">>)} }
MappingInputs ==
    { Map(1, NonSpecific, m) :
        m \in MapsFrom([k \in {<<"7">>, <<"0", "x", "7">>, <<"a", "b">>} |->
                          { PlainScalar(2, <<"7">>),
                            PlainScalar(2, <<"a", "b", "c">>) }]) }
        \cup ShapeInputs \cup {PlainScalar(1, <<"7">>)}

MixedSequences ==
    { SequenceV(e, f) : e \in SubValidators, f \in {None, Some("split")} }
SequenceInputs ==
    { List(1, NonSpecific, l) : l \in ListsOf(SubInputs, MaxElems) }
        \cup ShapeInputs
        \cup { PlainScalar(1, <<"7">>), PlainScalar(1, <<"7", " ", "a">>) }

\* structures and maps that differ in their keys: declared names with and
\* without an underscore, hyphenated aliases, underscore-prefixed and
\* undeclared keys
KeyStructures ==
    { StructureV(ms, f[1], f[2]) :
        ms \in NamedSeqs(
                 { Member(<<"a", "_", "b">>, NumericV(FALSE, Some(5), None, None)),
                   Member(<<"a", "_", "b">>, NumericV(FALSE, None, None, None)),
                   Member(<<"c">>, ScalarV(FALSE, None, Some(3), None)),
                   Member(<<"_", "d">>, AnythingV) }, MaxMembers),
        f \in StructureFlags }
KeyInputs ==
    { Map(1, NonSpecific, m) :
        m \in MapsFrom([k \in { <<"a", "_", "b">>, <<"a", "-", "b">>, <<"c">>,
                                <<"_", "d">>, <<"_", "e">>, <<"x">>, <<"y">> }
                          |-> IF k = <<"a", "_", "b">>
                              THEN { PlainScalar(2, <<"7">>),
                                     PlainScalar(2, <<"k">>) }
                              ELSE IF k = <<"a", "-", "b">>
                              THEN {PlainScalar(3, <<"0", "x", "c">>)}
                              ELSE IF k = <<"c">>
                              THEN {PlainScalar(4, <<"a", "b", "c">>)}
                              ELSE {PlainScalar(5, <<"7">>)}]) }

\* the (schema, tree) pairs of a session
Sessions ==
    (LeafSchemas \X LeafInputs)
        \cup (KeyStructures \X KeyInputs)
        \cup (MixedStructures \X MixedStructureInputs)
        \cup (MixedEnums \X EnumInputs)
        \cup (MixedMappings \X MappingInputs)
        \cup (MixedSequences \X SequenceInputs)

InitV ==
    /\ InitCollector
    /\ \E s \in Sessions : schema = s[1] /\ input = s[2]

NextV ==
    \/ RunValidate
    \/ Revalidate
    \/ TakeDefault

SpecV == InitV /\ [][NextV]_vars

(***************************************************************************)
(* Numeric sessions: a Numeric validator and a scalar whose text is any    *)
(* string of at most MaxTextLen characters of NumChars, or one of the      *)
(* longer texts of the tests and of the i64 boundaries.                    *)
(***************************************************************************)
MaxTextLen == 3
NumChars == {"0", "1", "7", "-", "+", "x", "o", "b", "k", "i", "M", "U+00E9"}
ShortTexts == UNION { [1..len -> NumChars] : len \in 0..MaxTextLen }
LongTexts ==
    { <<"1", "0", "0", "M">>, <<"1", "0", "0", "0", "0", "0", "0", "0", "0">>,
      <<"0", "o", "1", "4", "4">>, <<"1", "0", "0">>,
      <<"0", "b", "1", "1", "0", "0", "1", "0", "0", "0">>, <<"2", "0", "0">>,
      <<"0", "x", "1", "2", "c">>, <<"3", "0", "0">>,
      <<"-", "1", "0", "k", "i">>, <<"2", "G", "i">>, <<"0", "0", "7", "G">>,
      <<"9", "2", "2", "3", "3", "7", "2", "0", "3", "6", "8", "5", "4", "7",
        "7", "5", "8", "0", "7">>,
      <<"9", "2", "2", "3", "3", "7", "2", "0", "3", "6", "8", "5", "4", "7",
        "7", "5", "8", "0", "8">>,
      <<"-", "9", "2", "2", "3", "3", "7", "2", "0", "3", "6", "8", "5", "4",
        "7", "7", "5", "8", "0", "8">>,
      <<"0", "x", "7", "f", "f", "f", "f", "f", "f", "f", "f", "f", "f", "f",
        "f", "f", "f", "f">>,
      <<"-", "8", "5", "8", "9", "9", "3", "4", "5", "9", "2", "G", "i">>,
      <<"8", "5", "8", "9", "9", "3", "4", "5", "9", "2", "G", "i">>,
      <<"9", "2", "2", "3", "3", "7", "2", "0", "3", "7", "G">> }
NumericSessionSchemas ==
    { NumericV(FALSE, None, None, None),
      NumericV(TRUE, Some(5), Some(-10), Some(2000)) }
NumericSessionInputs ==
    { Scalar(1, LocalTag(<<"a", "b">>), "Quoted", text) : text \in ShortTexts }
        \cup { Scalar(1, t, k, text) :
                 t \in Tags, k \in Kinds, text \in LongTexts }

InitNumeric ==
    /\ InitCollector
    /\ schema \in NumericSessionSchemas
    /\ input \in NumericSessionInputs

SpecNumeric == InitNumeric /\ [][NextV]_vars

(***************************************************************************)
(* Properties of the ErrorCollector                                        *)
(***************************************************************************)
CollectorOps == {"add_error", "into_result", "into_fatal", "unwrap"}

\* C1: into_result(val) on a collector that still holds its list returns
\* Err(list) if and only if at least one add_error call returned since the
\* collector was created, and Ok(val) with the value passed in otherwise,
\* whichever validators ran and whatever defaults they synthesized.
C1_IntoResultIffErrors ==
    (last.op = "into_result" /\ ~last.panicked) =>
        IF Len(added) > 0
        THEN last.ret.variant = "Err"
        ELSE last.ret = RetOk(last.arg[1])

\* into_result gave Ok after a validate call that synthesized a default
C1_Witness ==
    /\ last.op = "into_result"
    /\ last.ret.variant = "Ok"
    /\ pc = "validated"
    /\ \E i \in 1..Len(res.trace) : res.trace[i].ev = "default"

\* C2: into_result and into_fatal leave the cell empty, and once the cell is
\* empty every add_error, into_result, into_fatal and unwrap call, on any
\* handle, panics, returns nothing and leaves the cell empty.
C2_ConsumedFailsLoudly ==
    [][(steps' = steps + 1 /\ last'.op \in CollectorOps) =>
         /\ (last'.op \in {"into_result", "into_fatal"} => cell' = None)
         /\ (cell = None =>
               /\ last'.panicked
               /\ last'.ret = NoRet
               /\ cell' = None
               /\ added' = added)]_vars

\* add_error through the second handle panicked after the list was taken
C2_Witness ==
    /\ cell = None
    /\ last.op = "add_error"
    /\ last.handle = 2
    /\ last.panicked

\* C3: the list a terminal call hands out holds exactly the errors passed to
\* add_error, once each and in call order; into_fatal(e) returns them
\* followed by e, so its list is never empty.
C3_ListIsHistory ==
    (last.op \in {"into_result", "into_fatal", "unwrap"} /\ ~last.panicked) =>
        /\ (last.op = "unwrap" => last.ret = RetList(added))
        /\ (last.op = "into_result" /\ last.ret.variant = "Err"
               => last.ret.list = added)
        /\ (last.op = "into_fatal" =>
               /\ last.ret = RetList(Append(added, last.arg[1]))
               /\ Len(last.ret.list) >= 1)

\* into_fatal returned two different recorded errors and the fatal one
C3_Witness ==
    /\ last.op = "into_fatal"
    /\ ~last.panicked
    /\ Len(added) = 2
    /\ added[1] # added[2]
    /\ Len(last.ret.list) = 3

(***************************************************************************)
(* Properties of the validators                                            *)
(***************************************************************************)
\* the alias of a declared name: each underscore written as a hyphen
HyphenAlias(k) == [i \in DOMAIN k |-> IF k[i] = "_" THEN "-" ELSE k[i]]
\* the first validate call of the session was made on input
FirstCallDone == last.op = "validate" /\ steps = 1
Returned == FirstCallDone /\ ~last.panicked
MemberNames(self) == {self.members[i].name : i \in 1..Len(self.members)}
Count(errs, fmt) == Cardinality({i \in 1..Len(errs) : errs[i].fmt = fmt})

\* the Ast variants the claim says a validator does not accept
ShapeRejected(self, ast) ==
    CASE self.ty \in {"Scalar", "Numeric", "Directory"} ->
            \/ ast.v \in {"Map", "List"}
            \/ ast.v = "Null" /\ ~self.optional
      [] self.ty \in {"Structure", "Mapping"} ->
            \/ ast.v = "List"
            \/ ast.v = "Null" /\ ast.kind = "Explicit"
            \/ ast.v = "Scalar" /\ self.from_scalar = None
      [] self.ty = "Sequence" ->
            \/ ast.v = "Map"
            \/ ast.v = "Null" /\ ast.kind = "Explicit"
            \/ ast.v = "Scalar" /\ self.from_scalar = None
      [] OTHER -> FALSE

\* C4: when Scalar, Numeric, Directory, Structure, Mapping or Sequence is
\* given a variant it does not accept, validate returns, adds exactly one
\* error to the collector and returns a node equal to its input.
C4_ShapeMismatch ==
    (FirstCallDone /\ ShapeRejected(schema, input)) =>
        /\ ~last.panicked
        /\ Len(res.errs) = 1
        /\ cell = Some(res.errs)
        /\ res.ast = input

\* a Structure without from_scalar was given a scalar, a Scalar a map
C4_Witness ==
    /\ Returned
    /\ \/ schema.ty = "Structure" /\ input.v = "Scalar"
       \/ schema.ty = "Scalar" /\ input.v = "Map"
    /\ ShapeRejected(schema, input)
    /\ Len(res.errs) = 1

\* the input value Structure::validate hands to member i, if any
MemberSource(self, items, i) ==
    LET k == self.members[i].name
    IN  IF k \in DOMAIN items THEN Some(items[k])
        ELSE MapGet(items, HyphenAlias(k))

RECURSIVE ElementErrors(_, _, _)
\* the errors of validating the elements i.. one after the other
ElementErrors(self, elems, i) ==
    IF i > Len(elems) THEN <<>>
    ELSE Validate(self.element, elems[i]).errs
             \o ElementErrors(self, elems, i + 1)

\* C5: Structure.validate on a Map processes every declared member whatever
\* errors earlier members reported: a member present in the input has its
\* validator invoked on its value, an absent one is defaulted or reported
\* missing; Sequence.validate on a List invokes the element validator on
\* every element, and element i of the returned List is the validation
\* result of input element i.
C5_AccumulateNotAbort ==
    /\ (Returned /\ schema.ty = "Structure" /\ input.v = "Map") =>
          /\ Len(res.trace) = Len(schema.members)
          /\ \A i \in 1..Len(schema.members) :
               LET src == MemberSource(schema, input.items, i)
                   k == schema.members[i].name
               IN  /\ res.trace[i].who = i
                   /\ src # None => res.trace[i] = Called(i, Unwrap(src))
                   /\ src = None =>
                        \/ /\ res.trace[i].ev = "default"
                           /\ k \in DOMAIN res.ast.items
                        \/ /\ res.trace[i].ev = "missing"
                           /\ \E j \in 1..Len(res.errs) :
                                /\ res.errs[j].fmt = "Field {} is expected"
                                /\ res.errs[j].name = k
    /\ (Returned /\ schema.ty = "Sequence" /\ input.v = "List") =>
          /\ res.ast.v = "List"
          /\ Len(res.ast.elems) = Len(input.elems)
          /\ Len(res.trace) = Len(input.elems)
          /\ \A i \in 1..Len(input.elems) :
               /\ res.trace[i] = Called("element", input.elems[i])
               /\ res.ast.elems[i] =
                      Validate(schema.element, input.elems[i]).ast
          /\ res.errs = ElementErrors(schema, input.elems, 1)

\* the first element of a list and the first member of a map were in error
\* and the second one was validated and reported its own error
C5_Witness ==
    /\ Returned
    /\ \/ /\ schema.ty = "Sequence"
          /\ input.v = "List"
          /\ Len(input.elems) = 2
          /\ Validate(schema.element, input.elems[1]).errs # <<>>
          /\ Validate(schema.element, input.elems[2]).errs # <<>>
          /\ Len(res.errs) >= 2
       \/ /\ schema.ty = "Structure"
          /\ input.v = "Map"
          /\ Len(schema.members) = 2
          /\ res.trace[1].ev = "validate"
          /\ res.trace[2].ev = "validate"
          /\ Validate(schema.members[1].validator, res.trace[1].arg).errs
                 # <<>>
          /\ Validate(schema.members[2].validator, res.trace[2].arg).errs
                 # <<>>

\* C6: when S.validate(A) reports no error and returns B, S.validate(B)
\* reports no error and returns a tree identical to B.
C6_Idempotent ==
    (last.op = "validate" /\ steps = 2 /\ res.errs = <<>>) =>
        /\ ~last.panicked
        /\ res2.errs = <<>>
        /\ res2.ast = res.ast

RECURSIVE AllOptional(_)
\* every node of the schema is an optional Scalar, Numeric, Directory,
\* Structure or Enum
AllOptional(self) ==
    CASE self.ty \in {"Scalar", "Numeric", "Directory"} -> self.optional
      [] self.ty = "Structure" ->
            /\ self.optional
            /\ \A i \in 1..Len(self.members) :
                 AllOptional(self.members[i].validator)
      [] self.ty = "Enum" ->
            /\ self.optional
            /\ \A i \in 1..Len(self.options) :
                 AllOptional(self.options[i].validator)
      [] OTHER -> FALSE

\* C7: for a schema whose nodes are all optional, default(pos) is Some(d)
\* and validate(d) reports no error.
C7_DefaultTotal ==
    AllOptional(schema) =>
        /\ pc = "start" => Default(schema, input.pos) # None
        /\ (FirstCallDone /\ input \in Default(schema, input.pos)) =>
              /\ ~last.panicked
              /\ res.errs = <<>>

\* the map with the entry under key from moved to key to
MoveKey(items, from, to) ==
    MapInsert(MapRemove(items, from), to, items[from])

\* C9: for a member declared under name k whose hyphenated alias differs
\* from k, a Map that holds a value v under exactly one of k and the alias
\* validates to the same result whichever of the two keys is used: the
\* member validator's output for v is stored under k, the alias is absent
\* from the result and no unexpected-key error names it.
C9_KeyAliasing ==
    (Returned /\ schema.ty = "Structure" /\ input.v = "Map") =>
        \A i \in 1..Len(schema.members) :
          LET k == schema.members[i].name
              a == HyphenAlias(k)
              has == {x \in {k, a} : x \in DOMAIN input.items}
              x == CHOOSE x \in has : TRUE
              y == CHOOSE y \in {k, a} : y # x
              other == Validate(schema,
                           [input EXCEPT !.items = MoveKey(input.items, x, y)])
          IN  (a # k /\ Cardinality(has) = 1) =>
                /\ k \in DOMAIN res.ast.items
                /\ res.ast.items[k] =
                       Validate(schema.members[i].validator,
                                input.items[x]).ast
                /\ a \notin DOMAIN res.ast.items
                /\ \A j \in 1..Len(res.errs) : a \notin res.errs[j].keys
                /\ other.ast = res.ast
                /\ other.errs = res.errs
                /\ other.abort = res.abort

\* the value was given under the hyphenated alias only and came out
\* canonicalized under the declared name
C9_Witness ==
    /\ Returned
    /\ schema.ty = "Structure"
    /\ input.v = "Map"
    /\ <<"a", "_", "b">> \in MemberNames(schema)
    /\ <<"a", "-", "b">> \in DOMAIN input.items
    /\ <<"a", "_", "b">> \notin DOMAIN input.items
    /\ res.ast.items[<<"a", "_", "b">>] = PlainScalar(3, <<"1", "2">>)
    /\ <<"x">> \in DOMAIN res.ast.items

KeysFmt == "Keys {:?} are not expected"
\* the keys of the input that are neither declared (directly or through an
\* alias) nor prefixed with an underscore
Undeclared(self, items) ==
    { k \in DOMAIN items :
        /\ ~StartsWithUnderscore(k)
        /\ k \notin MemberNames(self)
        /\ k \notin {HyphenAlias(n) : n \in MemberNames(self)} }

\* C10: a Structure.validate call on a Map reports at most one
\* "Keys ... are not expected" error; it reports one if and only if the map
\* holds at least one key that is not a declared member name and does not
\* start with an underscore, that error names exactly all such keys, and
\* keys starting with an underscore are never named.
C10_UnexpectedKeys ==
    (Returned /\ schema.ty = "Structure" /\ input.v = "Map") =>
        LET bad == Undeclared(schema, input.items)
            at == {j \in 1..Len(res.errs) : res.errs[j].fmt = KeysFmt}
        IN  /\ Cardinality(at) <= 1
            /\ (at # {}) <=> (bad # {})
            /\ \A j \in at : res.errs[j].keys = bad /\ res.errs[j].pos = input.pos
            /\ \A j \in 1..Len(res.errs) :
                 \A k \in res.errs[j].keys : ~StartsWithUnderscore(k)
            /\ bad = UnexpectedKeys(schema, res.ast.items)

\* two undeclared keys next to underscore-prefixed ones: one error names both
C10_Witness ==
    /\ Returned
    /\ schema.ty = "Structure"
    /\ schema.members # <<>>
    /\ input.v = "Map"
    /\ {<<"_", "d">>, <<"_", "e">>, <<"x">>, <<"y">>} \subseteq DOMAIN input.items
    /\ <<"_", "d">> \notin MemberNames(schema)
    /\ Count(res.errs, KeysFmt) = 1
    /\ \E j \in 1..Len(res.errs) : res.errs[j].keys = {<<"x">>, <<"y">>}

(***************************************************************************)
(* What a numeric text denotes                                             *)
(***************************************************************************)
IsDigits(s, radix) ==
    s # <<>> /\ \A i \in 1..Len(s) : ToDigit(s[i], radix) # None
RECURSIVE NatValue(_, _, _)
\* the natural number the digits s denote in the radix, after acc
NatValue(s, radix, acc) ==
    IF s = <<>> THEN acc
    ELSE NatValue(Tail(s), radix,
                  MagMulSmall(acc, radix, Unwrap(ToDigit(Head(s), radix))))
\* an optional minus sign and decimal digits
IsSigned(s) ==
    IF s # <<>> /\ Head(s) = "-" THEN IsDigits(Tail(s), 10)
    ELSE IsDigits(s, 10)
SignedValue(s) ==
    IF Head(s) = "-" THEN MkInt(TRUE, NatValue(Tail(s), 10, <<>>))
    ELSE MkInt(FALSE, NatValue(s, 10, <<>>))
\* n.to_string() read as a pattern: no leading zero, no minus zero
IsCanonicalDecimal(s) ==
    /\ IsSigned(s)
    /\ LET d == IF Head(s) = "-" THEN Tail(s) ELSE s
       IN  /\ Len(d) = 1 \/ Head(d) # "0"
           /\ Head(s) = "-" => d # <<"0">>
UnitSuffixes ==
    { <<<<"k">>, NatBytes(1000)>>, <<<<"M">>, NatBytes(1000000)>>,
      <<<<"G">>, NatBytes(1000000000)>>, <<<<"k", "i">>, NatBytes(1024)>>,
      <<<<"M", "i">>, NatBytes(1024 * 1024)>>,
      <<<<"G", "i">>, NatBytes(1024 * 1024 * 1024)>> }
RadixPrefixes == { <<<<"0", "x">>, 16>>, <<<<"0", "o">>, 8>>, <<<<"0", "b">>, 2>> }
HasSuffix(s, u) ==
    Len(s) > Len(u) /\ SubSeq(s, Len(s) - Len(u) + 1, Len(s)) = u
\* the integers the text denotes: as canonical decimal, through a unit
\* suffix after a decimal number, or through a radix prefix before digits
Denoted(s) ==
    (IF IsCanonicalDecimal(s) THEN {SignedValue(s)} ELSE {})
    \cup { MkInt(SignedValue(SubSeq(s, 1, Len(s) - Len(u[1]))).neg,
                 MagMulBytes(
                     SignedValue(SubSeq(s, 1, Len(s) - Len(u[1]))).mag, u[2]))
           : u \in { u \in UnitSuffixes :
                       /\ HasSuffix(s, u[1])
                       /\ IsSigned(SubSeq(s, 1, Len(s) - Len(u[1]))) } }
    \cup { MkInt(FALSE, NatValue(SubSeq(s, 3, Len(s)), r[2], <<>>))
           : r \in { r \in RadixPrefixes :
                       /\ Len(s) > 2
                       /\ SubSeq(s, 1, 2) = r[1]
                       /\ IsDigits(SubSeq(s, 3, Len(s)), r[2]) } }
WithinLimits(self, n) ==
    /\ self.min # None => ~I64Less(n, I64(Unwrap(self.min)))
    /\ self.max # None => ~I64Less(I64(Unwrap(self.max)), n)

\* C8: Numeric.validate on a scalar that denotes an i64 n within min/max,
\* as canonical decimal or through a unit suffix (k, M, G, ki, Mi, Gi) or a
\* radix prefix (0x, 0o, 0b), reports no error and returns
\* Scalar(pos, NonSpecific, Plain, decimal(n)): "100M" gives "100000000",
\* "0o144", "0b11001000" and "0x12c" give "100", "200" and "300".
C8_NumericCanonical ==
    (FirstCallDone /\ schema.ty = "Numeric" /\ input.v = "Scalar") =>
        /\ \A n \in Denoted(input.text) :
             (FitsI64(n) /\ WithinLimits(schema, n)) =>
               /\ ~last.panicked
               /\ res.errs = <<>>
               /\ res.ast.v = "Scalar"
               /\ res.ast.pos = input.pos
               /\ res.ast.tag = NonSpecific
               /\ res.ast.kind = "Plain"
               /\ IsCanonicalDecimal(res.ast.text)
               /\ SignedValue(res.ast.text) = n
               /\ IsCanonicalDecimal(input.text) => res.ast.text = input.text
        /\ input.text = <<"1", "0", "0", "M">> =>
             res.ast.text = <<"1", "0", "0", "0", "0", "0", "0", "0", "0">>
        /\ input.text = <<"0", "o", "1", "4", "4">> =>
             res.ast.text = <<"1", "0", "0">>
        /\ input.text = <<"0", "b", "1", "1", "0", "0", "1", "0", "0", "0">> =>
             res.ast.text = <<"2", "0", "0">>
        /\ input.text = <<"0", "x", "1", "2", "c">> =>
             res.ast.text = <<"3", "0", "0">>

\* a quoted, tagged "1ki" came back as the plain untagged "1024"
C8_Witness ==
    /\ Returned
    /\ schema.ty = "Numeric"
    /\ schema.max = Some(2000)
    /\ input = Scalar(1, LocalTag(<<"a", "b">>), "Quoted", <<"1", "k", "i">>)
    /\ res.errs = <<>>
    /\ res.ast = PlainScalar(1, <<"1", "0", "2", "4">>)

FieldFmt == "Field {} is expected"
\* the errors that report the declared name k as missing
FieldErrors(errs, k) ==
    {j \in 1..Len(errs) : errs[j].fmt = FieldFmt /\ errs[j].name = k}

\* C11: in Structure.validate on a Map, a declared member absent under both
\* spellings gets the member's default(pos), taken at the map's position,
\* under the declared name and no "Field X is expected" error; when the
\* member has no default exactly one such error is reported for it and the
\* result has no entry for it.  A member present in the input has its
\* validator run and its default is never used.
C11_MemberDefaulting ==
    (Returned /\ schema.ty = "Structure" /\ input.v = "Map") =>
        /\ \A i \in 1..Len(schema.members) :
             LET k == schema.members[i].name
                 val == schema.members[i].validator
                 src == MemberSource(schema, input.items, i)
                 d == Default(val, input.pos)
             IN  /\ (src = None /\ d # None) =>
                       /\ k \in DOMAIN res.ast.items
                       /\ res.ast.items[k] = Unwrap(d)
                       /\ FieldErrors(res.errs, k) = {}
                 /\ (src = None /\ d = None) =>
                       /\ k \notin DOMAIN res.ast.items
                       /\ Cardinality(FieldErrors(res.errs, k)) = 1
                       /\ \A j \in FieldErrors(res.errs, k) :
                            res.errs[j].pos = input.pos
                 /\ src # None =>
                       /\ res.trace[i] = Called(i, Unwrap(src))
                       /\ res.ast.items[k] = Validate(val, Unwrap(src)).ast
                       /\ FieldErrors(res.errs, k) = {}
        /\ (\A i \in 1..Len(schema.members) :
               /\ MemberSource(schema, input.items, i) = None
               /\ Default(schema.members[i].validator, input.pos) # None) =>
             \A j \in 1..Len(res.errs) : res.errs[j].fmt = KeysFmt

\* of two absent members one was defaulted and the other reported missing
C11_Witness ==
    /\ Returned
    /\ schema.ty = "Structure"
    /\ input.v = "Map"
    /\ Len(schema.members) = 2
    /\ \E i, j \in 1..2 :
         /\ res.trace[i].ev = "default"
         /\ res.trace[j].ev = "missing"
    /\ Len(res.errs) = 1
    /\ Cardinality(DOMAIN res.ast.items) = 1

OptionNames(self) == {self.options[i].name : i \in 1..Len(self.options)}
\* the declared option called name
OptionOf(self, name) ==
    CHOOSE i \in 1..Len(self.options) : self.options[i].name = name
TagFmt == "The tag {} is not expected"

\* C12: Enum.validate on an input tagged LocalTag(name): when name is a
\* declared option, that option's validator runs once on the whole input
\* node and no other validator runs, even for a scalar whose text is another
\* option's name under allow_plain, and the result is that validator's
\* output stamped LocalTag(name); when name is not declared no validator
\* runs, exactly one "The tag name is not expected" error is reported and
\* the input is returned unchanged.
C12_EnumTagDispatch ==
    (FirstCallDone /\ schema.ty = "Enum" /\ input.tag.t = "LocalTag") =>
        LET name == input.tag.name
        IN  IF name \in OptionNames(schema)
            THEN LET i == OptionOf(schema, name)
                     r == Validate(schema.options[i].validator, input)
                 IN  /\ res.trace = <<Called(i, input)>>
                     /\ res.ast = [r.ast EXCEPT !.tag = LocalTag(name)]
                     /\ res.errs = r.errs
                     /\ last.panicked = r.abort
            ELSE /\ ~last.panicked
                 /\ res.trace = <<>>
                 /\ Len(res.errs) = 1
                 /\ res.errs[1].fmt = TagFmt
                 /\ res.errs[1].name = name
                 /\ res.ast = input

\* a scalar tagged !ab whose text names the option c, under allow_plain:
\* only the validator of ab ran, on the scalar
C12_Witness ==
    /\ Returned
    /\ schema.ty = "Enum"
    /\ schema.allow_plain
    /\ OptionNames(schema) = {<<"a", "b">>, <<"c">>}
    /\ input.v = "Scalar"
    /\ input.tag = LocalTag(<<"a", "b">>)
    /\ input.text = <<"c">>
    /\ Len(res.trace) = 1
    /\ res.trace[1].arg = input
    /\ res.ast.tag = LocalTag(<<"a", "b">>)

OneOfFmt == "One of the tags {:?} expected"
\* an untagged scalar whose text is a declared option name, under allow_plain
PlainCase ==
    /\ FirstCallDone
    /\ schema.ty = "Enum"
    /\ schema.allow_plain
    /\ input.v = "Scalar"
    /\ input.tag = NonSpecific
    /\ input.text \in OptionNames(schema)
\* the result is the one of validating the tagged implicit null !N
SameAsTaggedNull ==
    LET t == Validate(schema,
                 Null(input.pos, LocalTag(input.text), "Implicit"))
    IN  /\ res.ast = t.ast
        /\ res.errs = t.errs
        /\ last.panicked = t.abort
\* an untagged scalar that names no option, without default_tag: one error,
\* the input unchanged
NoOptionNamed ==
    (/\ FirstCallDone
     /\ schema.ty = "Enum"
     /\ schema.default_tag = None
     /\ input.v = "Scalar"
     /\ input.tag = NonSpecific
     /\ input.text \notin OptionNames(schema)) =>
        /\ ~last.panicked
        /\ res.trace = <<>>
        /\ Len(res.errs) = 1
        /\ res.errs[1].fmt = OneOfFmt
        /\ res.errs[1].keys = OptionNames(schema)
        /\ res.ast = input

\* C13 as stated: with allow_plain, an untagged Scalar whose text is a
\* declared option name N validates to the same tree and errors as
\* Null(Implicit) at the same position tagged !N, whatever the option's
\* validator; an untagged scalar matching no option, with no default_tag,
\* yields one "One of the tags ... expected" error and the input unchanged.
C13_PlainEqualsTagged ==
    /\ PlainCase => SameAsTaggedNull
    /\ NoOptionNamed

\* C13 amended: the option's validator is run once on a synthetic untagged
\* Null(Implicit) and its output stamped LocalTag(N); the result equals the
\* one for the tagged null !N when that validator is not itself an Enum
\* (an Enum dispatches on the tag of the node it is given).
C13_PlainRunsOnNull ==
    /\ PlainCase =>
         LET i == OptionOf(schema, input.text)
             arg == Null(input.pos, NonSpecific, "Implicit")
             r == Validate(schema.options[i].validator, arg)
         IN  /\ res.trace = <<Called(i, arg)>>
             /\ res.ast = [r.ast EXCEPT !.tag = LocalTag(input.text)]
             /\ res.errs = r.errs
             /\ schema.options[i].validator.ty # "Enum" => SameAsTaggedNull
    /\ NoOptionNamed

\* the plain scalar "c" selected a Numeric option: its validator saw a null,
\* not the scalar
C13_Witness ==
    /\ PlainCase
    /\ ~last.panicked
    /\ input.text = <<"c">>
    /\ schema.options[OptionOf(schema, <<"c">>)].validator.ty = "Numeric"
    /\ res.errs = <<>>
    /\ res.ast = Null(input.pos, LocalTag(<<"c">>), "Implicit")

\* the path has a ".." component somewhere
HasParentDir(text) ==
    \E i \in 1..(Len(text) - 1) :
        /\ text[i] = "." /\ text[i + 1] = "."
        /\ i = 1 \/ text[i - 1] = "/"
        /\ i + 1 = Len(text) \/ text[i + 2] = "/"
IsAbsolutePath(text) == text # <<>> /\ text[1] = "/"
Fmts(errs) == [j \in 1..Len(errs) |-> errs[j].fmt]

\* C14: Directory.validate on a Scalar: with absolute = Some(true) a
\* relative path yields exactly one "Path must be absolute" error; with
\* Some(false) an absolute path yields exactly one "Path must not be
\* absolute" error and a relative path with ".." components exactly one
\* "The /../ is not allowed in path" error however many there are; with
\* None no error is reported.  The node returned is the NonSpecific scalar
\* with the path text as given.
C14_DirectoryConstraints ==
    (FirstCallDone /\ schema.ty = "Directory" /\ input.v = "Scalar") =>
        /\ ~last.panicked
        /\ res.ast = Scalar(input.pos, NonSpecific, input.kind, input.text)
        /\ Fmts(res.errs) =
             IF schema.absolute = Some(TRUE) /\ ~IsAbsolutePath(input.text)
                 THEN <<"Path must be absolute">>
             ELSE IF schema.absolute = Some(FALSE) /\ IsAbsolutePath(input.text)
                 THEN <<"Path must not be absolute">>
             ELSE IF schema.absolute = Some(FALSE) /\ HasParentDir(input.text)
                 THEN <<"The /../ is not allowed in path">>
             ELSE <<>>

LeafTypes == {"Scalar", "Numeric", "Directory"}
\* the message a leaf validator has for a node of the wrong shape
ShapeFmt(self) ==
    IF self.ty = "Directory" THEN "Path expected" ELSE "Value must be scalar"

\* C15: Scalar, Numeric and Directory accept a Null, implicit or explicit,
\* exactly when the validator is optional: it is then returned unchanged
\* without error and the configured default is not substituted; a validator
\* that is not optional, with or without a default, reports exactly one
\* shape error and returns the Null unchanged.
C15_LeafNull ==
    (FirstCallDone /\ schema.ty \in LeafTypes /\ input.v = "Null") =>
        /\ ~last.panicked
        /\ res.ast = input
        /\ schema.optional => res.errs = <<>>
        /\ ~schema.optional =>
             res.errs = <<validation_error(input.pos, ShapeFmt(schema))>>

\* an explicit, tagged null went through an optional Directory that has a
\* default, and came back as it was
C15_Witness ==
    /\ Returned
    /\ schema.ty = "Directory"
    /\ schema.optional
    /\ schema.default # None
    /\ input.v = "Null"
    /\ input.kind = "Explicit"
    /\ input.tag # NonSpecific
    /\ res.ast = input
    /\ res.errs = <<>>

\* the node the key validator is given for the entry (k, v)
KeyNode(items, k) == Scalar(items[k].pos, NonSpecific, "Plain", k)
\* the text the key validator returns for key k
KeyText(self, items, k) == Validate(self.key_element, KeyNode(items, k)).ast.text
Calls(trace) == {trace[j] : j \in 1..Len(trace)}

\* C16: Mapping.validate turns Null(Implicit) into an empty NonSpecific Map
\* at the same position without error.  On a Map, for every entry (k, v) the
\* key validator is run on Scalar(Plain, k) and the value validator on v;
\* the result's keys are the texts the key validator returned, each holding
\* the validated value of an entry with that key text; the result has at
\* most as many entries as the input, and as many when the key validator
\* keeps distinct keys distinct.
C16_MappingEntries ==
    /\ (FirstCallDone /\ schema.ty = "Mapping" /\ input.v = "Null"
            /\ input.kind = "Implicit") =>
          /\ ~last.panicked
          /\ res.ast = Map(input.pos, NonSpecific, EmptyMap)
          /\ res.errs = <<>>
    /\ (Returned /\ schema.ty = "Mapping" /\ input.v = "Map") =>
          LET items == input.items
              keys == DOMAIN items
              out == res.ast.items
          IN  /\ res.ast.v = "Map"
              /\ res.ast.pos = input.pos
              /\ res.ast.tag = NonSpecific
              /\ Len(res.trace) = 2 * Cardinality(keys)
              /\ \A k \in keys :
                   /\ Called("key", KeyNode(items, k)) \in Calls(res.trace)
                   /\ Called("value", items[k]) \in Calls(res.trace)
                   /\ KeyText(schema, items, k) \in DOMAIN out
                   /\ \E k2 \in keys :
                        /\ KeyText(schema, items, k2) = KeyText(schema, items, k)
                        /\ out[KeyText(schema, items, k)] =
                               Validate(schema.value_element, items[k2]).ast
              /\ DOMAIN out = {KeyText(schema, items, k) : k \in keys}
              /\ Cardinality(DOMAIN out) <= Cardinality(keys)
              /\ (\A k, k2 \in keys :
                     KeyText(schema, items, k) = KeyText(schema, items, k2)
                         => k = k2)
                   => Cardinality(DOMAIN out) = Cardinality(keys)

\* the keys "0x7" and "7" of the input were both normalized to "7": two
\* entries went in, one came out
C16_Witness ==
    /\ Returned
    /\ schema.ty = "Mapping"
    /\ input.v = "Map"
    /\ DOMAIN input.items = {<<"0", "x", "7">>, <<"7">>}
    /\ DOMAIN res.ast.items = {<<"7">>}
    /\ Len(res.trace) = 4

\* an implicit null handed to a Structure whose members all have a default
NullForDefaultedStructure ==
    /\ FirstCallDone
    /\ schema.ty = "Structure"
    /\ input.v = "Null"
    /\ input.kind = "Implicit"
    /\ \A i \in 1..Len(schema.members) :
         Default(schema.members[i].validator, input.pos) # None
\* what the Structure returns for the explicit empty map at the same position
OnEmptyMap == Validate(schema, Map(input.pos, NonSpecific, EmptyMap))

\* C17 as stated: on Null(Implicit) a Structure whose members all have
\* defaults returns the same tree and the same (zero) errors as on the
\* explicit empty Map at the same position, with or without the optional
\* flag.
C17_NullAsEmptyMap ==
    NullForDefaultedStructure =>
        /\ ~last.panicked
        /\ res.errs = <<>>
        /\ OnEmptyMap.errs = <<>>
        /\ res.ast = OnEmptyMap.ast

\* C17 amended: that holds for a Structure that is not optional; an optional
\* Structure returns Null(pos, NonSpecific, Implicit) for the null, without
\* error, while the empty Map gives the map of the members' defaults.
C17_NullAsEmptyMapUnlessOptional ==
    NullForDefaultedStructure =>
        /\ ~last.panicked
        /\ res.errs = <<>>
        /\ OnEmptyMap.errs = <<>>
        /\ OnEmptyMap.ast.v = "Map"
        /\ DOMAIN OnEmptyMap.ast.items = MemberNames(schema)
        /\ ~schema.optional => res.ast = OnEmptyMap.ast
        /\ schema.optional =>
             res.ast = Null(input.pos, NonSpecific, "Implicit")

\* a tagged implicit null became the map of the two members' defaults
C17_Witness ==
    /\ NullForDefaultedStructure
    /\ ~last.panicked
    /\ ~schema.optional
    /\ Len(schema.members) = 2
    /\ input.tag # NonSpecific
    /\ res.ast.v = "Map"
    /\ res.ast.tag = NonSpecific
    /\ DOMAIN res.ast.items = MemberNames(schema)

IncludeError(pos) == preprocess_error(pos, "Includes are not supported")
TerminalOps == {"into_result", "into_fatal", "unwrap"}

\* C18: with Options::default(), an include request on a collector that
\* still holds its list adds exactly one PreprocessError "Includes are not
\* supported" at the given position and returns a void node; the collector
\* keeps its list, so that later add_error calls work and the terminal
\* operation hands out that error at its place in the list.
C18_DefaultInclude ==
    /\ [][(steps' = steps + 1 /\ last'.op = "include" /\ cell # None) =>
            /\ ~last'.panicked
            /\ last'.ret = RetAst(Null(last'.arg[1], NonSpecific, "Implicit"))
            /\ cell' = Some(Append(Unwrap(cell), IncludeError(last'.arg[1])))
            /\ added' = Append(added, IncludeError(last'.arg[1]))]_vars
    /\ []((last.op \in TerminalOps /\ ~last.panicked) =>
            \A i \in 1..Len(added) :
               added[i].kind = "PreprocessError" =>
                  /\ i <= Len(last.ret.list)
                  /\ last.ret.list[i] = added[i])

\* an include at position 2, then an add_error, then into_result: Err with
\* the include error first and the added error second
C18_Witness ==
    /\ last.op = "into_result"
    /\ last.ret.variant = "Err"
    /\ Len(last.ret.list) = 2
    /\ last.ret.list[1] = IncludeError(2)
    /\ last.ret.list[2].kind # "PreprocessError"

\* C19: Scalar.validate checks its bounds against the number of characters
\* of the text, multi-byte characters counting once: "Value must be at
\* least N characters" is reported iff that number is below min_length,
\* "Value must be at most N characters" iff it is above max_length, each
\* independently of the other, and the scalar is returned with its text and
\* kind and the tag NonSpecific.
C19_ScalarLengthInChars ==
    (FirstCallDone /\ schema.ty = "Scalar" /\ input.v = "Scalar") =>
        LET c == Len(input.text)
            short == schema.min_length # None /\ c < Unwrap(schema.min_length)
            long == schema.max_length # None /\ c > Unwrap(schema.max_length)
        IN  /\ ~last.panicked
            /\ res.ast = Scalar(input.pos, NonSpecific, input.kind, input.text)
            /\ Fmts(res.errs) =
                 (IF short THEN <<"Value must be at least {} characters">>
                  ELSE <<>>)
                 \o (IF long THEN <<"Value must be at most {} characters">>
                     ELSE <<>>)
            /\ \A j \in 1..Len(res.errs) :
                 res.errs[j].n =
                    IF res.errs[j].fmt = "Value must be at least {} characters"
                    THEN Unwrap(schema.min_length)
                    ELSE Unwrap(schema.max_length)

\* a text no reading makes an integer: it has no decimal digit (the empty
\* text, a bare suffix, a word) or it has a multi-byte character
NotAnInteger(s) ==
    \/ \A i \in 1..Len(s) :
         s[i] \notin {"0", "1", "2", "3", "4", "5", "6", "7", "8", "9"}
    \/ \E i \in 1..Len(s) : s[i] = "U+00E9"

\* C20: Numeric.validate on a scalar whose text does not denote an integer
\* (empty, a bare suffix, a word, or a text with a multi-byte character)
\* does not abort: it reports exactly one "Value must be numeric" error and
\* returns the scalar with its tag, kind and text.
C20_NumericNeverAborts ==
    (/\ FirstCallDone
     /\ schema.ty = "Numeric"
     /\ input.v = "Scalar"
     /\ NotAnInteger(input.text)) =>
        /\ ~last.panicked
        /\ Fmts(res.errs) = <<"Value must be numeric">>
        /\ res.errs[1].pos = input.pos
        /\ res.ast = input

(***************************************************************************)
(* validate.rs: the Enum builder.  A builder method takes self by value    *)
(* and returns it; [panic, self] is how the call ended and the Enum it     *)
(* returned.                                                               *)
(***************************************************************************)
MaxBuilderCalls == 4
MaxOptions == 2
OptionTags == {<<"a">>, <<"b">>}
BuilderValidators == {NothingV, NumericV(TRUE, Some(7), None, None)}

Enum_new == EnumV(<<>>, FALSE, None, FALSE)
Enum_optional(self) ==
    [panic |-> FALSE, self |-> [self EXCEPT !.optional = TRUE]]
\* allow_plain without its assert!
Enum_allow_plain_unchecked(self) ==
    [panic |-> FALSE, self |-> [self EXCEPT !.allow_plain = TRUE]]
Enum_allow_plain(self) ==
    IF ~(self.default_tag = None) THEN [panic |-> TRUE, self |-> self]
    ELSE [panic |-> FALSE, self |-> [self EXCEPT !.allow_plain = TRUE]]
Enum_option(self, name, value) ==
    [panic |-> FALSE,
     self |-> [self EXCEPT !.options = Append(@, Member(name, value))]]
Enum_default_tag(self, name) ==
    IF ~(~self.allow_plain) THEN [panic |-> TRUE, self |-> self]
    ELSE [panic |-> FALSE, self |-> [self EXCEPT !.default_tag = Some(name)]]

\* one builder call on the Enum under construction: schema is the Enum the
\* call returned; after a panic there is none
BuilderCall(op, arg, r) ==
    /\ pc = "start"
    /\ Len(built) < MaxBuilderCalls
    /\ built' = Append(built, op)
    /\ last' = Call(op, 1, arg, r.panic, NoRet)
    /\ schema' = r.self
    /\ pc' = IF r.panic THEN "panicked" ELSE pc
    /\ steps' = steps + 1
    /\ UNCHANGED <<cell, handles, added, overflow_checks, input, res, res2>>

BuildOptional == BuilderCall("optional", <<>>, Enum_optional(schema))
BuildAllowPlain == BuilderCall("allow_plain", <<>>, Enum_allow_plain(schema))
BuildOption ==
    /\ Len(schema.options) < MaxOptions
    /\ \E name \in OptionTags, value \in BuilderValidators :
         BuilderCall("option", <<name>>, Enum_option(schema, name, value))
BuildDefaultTag ==
    \E name \in OptionTags :
        BuilderCall("default_tag", <<name>>, Enum_default_tag(schema, name))

InitBuilder ==
    /\ InitCollector
    /\ schema = Enum_new
    /\ input = Null(1, NonSpecific, "Implicit")

NextBuilder ==
    \/ BuildOptional
    \/ BuildAllowPlain
    \/ BuildOption
    \/ BuildDefaultTag

SpecBuilder == InitBuilder /\ [][NextBuilder]_vars

\* the builder call op was made before the last one
CalledBefore(op) == \E j \in 1..(Len(built) - 1) : built[j] = op
LastBuilt(op) == built # <<>> /\ built[Len(built)] = op

\* C21: an Enum returned by a sequence of builder calls never has both
\* allow_plain and a default_tag; allow_plain after default_tag, and
\* default_tag after allow_plain, panic instead of returning an Enum.
C21_BuilderExclusive ==
    /\ pc # "panicked" =>
         ~(schema.allow_plain /\ schema.default_tag # None)
    /\ (LastBuilt("allow_plain") /\ CalledBefore("default_tag")) =>
         (pc = "panicked" /\ last.panicked)
    /\ (LastBuilt("default_tag") /\ CalledBefore("allow_plain")) =>
         (pc = "panicked" /\ last.panicked)

\* default_tag, option, then allow_plain: the last call panicked
C21_Witness ==
    /\ built = <<"default_tag", "option", "allow_plain">>
    /\ pc = "panicked"
    /\ last.op = "allow_plain"
    /\ last.panicked

\* C22: when the input Map holds both a declared name k and its hyphenated
\* alias, the member validator runs on the value under k and not on the
\* value under the alias, the result holds the validated value under k and
\* no entry under the alias, and no "Keys ... are not expected" error names
\* the alias.
C22_BothSpellings ==
    (Returned /\ schema.ty = "Structure" /\ input.v = "Map") =>
        \A i \in 1..Len(schema.members) :
          LET k == schema.members[i].name
              a == HyphenAlias(k)
          IN  (a # k /\ {k, a} \subseteq DOMAIN input.items) =>
                /\ \E j \in 1..Len(res.trace) :
                     res.trace[j] = Called(i, input.items[k])
                /\ \A j \in 1..Len(res.trace) :
                     res.trace[j] # Called(i, input.items[a])
                /\ k \in DOMAIN res.ast.items
                /\ res.ast.items[k] =
                       Validate(schema.members[i].validator,
                                input.items[k]).ast
                /\ a \notin DOMAIN res.ast.items
                /\ \A j \in 1..Len(res.errs) : a \notin res.errs[j].keys

\* a_b and a-b were both given, with different values, next to an
\* undeclared key: the result holds a_b only and the error names x only
C22_Witness ==
    /\ Returned
    /\ schema.ty = "Structure"
    /\ input.v = "Map"
    /\ <<"a", "_", "b">> \in MemberNames(schema)
    /\ {<<"a", "_", "b">>, <<"a", "-", "b">>, <<"x">>} \subseteq DOMAIN input.items
    /\ input.items[<<"a", "_", "b">>] # input.items[<<"a", "-", "b">>]
    /\ res.ast.items[<<"a", "_", "b">>] = PlainScalar(2, <<"7">>)
    /\ \E j \in 1..Len(res.errs) : res.errs[j].keys = {<<"x">>}

\* C23: a Structure.validate call that returns a Map without a declared
\* member X has reported "Field X is expected" in that call, for a Map
\* input and for a Null(Implicit) input whose result is Structure.default.
C23_MissingReported ==
    (Returned /\ schema.ty = "Structure" /\ res.ast.v = "Map") =>
        \A i \in 1..Len(schema.members) :
            schema.members[i].name \notin DOMAIN res.ast.items =>
                FieldErrors(res.errs, schema.members[i].name) # {}

\* the exact product of the decimal number p and the multiplier bytes m
ExactProduct(p, m) ==
    MkInt(SignedValue(p).neg, MagMulBytes(SignedValue(p).mag, m))

\* C24: Numeric.validate on a decimal number p followed by a unit suffix
\* with multiplier m does not abort, and the value it emits is the exact
\* product p*m: when the product does not fit an i64 it emits no
\* wrapped-around value.
C24_NumericExactProduct ==
    (FirstCallDone /\ schema.ty = "Numeric" /\ input.v = "Scalar") =>
        \A u \in UnitSuffixes :
          LET p == SubSeq(input.text, 1, Len(input.text) - Len(u[1]))
          IN  (HasSuffix(input.text, u[1]) /\ IsSigned(p)) =>
                /\ ~last.panicked
                /\ \/ /\ Fmts(res.errs) = <<"Value must be numeric">>
                      /\ res.ast = input
                   \/ /\ IsCanonicalDecimal(res.ast.text)
                      /\ SignedValue(res.ast.text) = ExactProduct(p, u[2])

RECURSIVE MemberErrors(_, _, _, _)
\* the errors the members i.. of a Structure cause on the map items, member
\* after member in declaration order
MemberErrors(self, pos, items, i) ==
    IF i > Len(self.members) THEN <<>>
    ELSE LET src == MemberSource(self, items, i)
             validator == self.members[i].validator
             own == IF src # None THEN Validate(validator, Unwrap(src)).errs
                    ELSE IF Default(validator, pos) # None THEN <<>>
                    ELSE <<validation_error_s(pos, FieldFmt,
                                              self.members[i].name)>>
         IN  own \o MemberErrors(self, pos, items, i + 1)

\* the keys in ascending order
Ascending(keys) ==
    CHOOSE q \in [1..Cardinality(keys) -> keys] :
        \A i, j \in 1..Cardinality(keys) : i < j => StrLess(q[i], q[j])

RECURSIVE EntryErrors(_, _, _, _)
\* the errors of the entries q[i..] of a Mapping: for each entry the errors
\* of its key, then those of its value
EntryErrors(self, items, q, i) ==
    IF i > Len(q) THEN <<>>
    ELSE Validate(self.key_element, KeyNode(items, q[i])).errs
            \o Validate(self.value_element, items[q[i]]).errs
            \o EntryErrors(self, items, q, i + 1)

\* the order of the errors one validate call reported
ErrorsInOrder ==
    /\ (Returned /\ schema.ty = "Structure" /\ input.v = "Map") =>
          LET m == MemberErrors(schema, input.pos, input.items, 1)
              bad == Undeclared(schema, input.items)
          IN  /\ SubSeq(res.errs, 1, Len(m)) = m
              /\ Len(res.errs) = Len(m) + (IF bad = {} THEN 0 ELSE 1)
              /\ bad # {} =>
                   /\ res.errs[Len(res.errs)].fmt = KeysFmt
                   /\ res.errs[Len(res.errs)].keys = bad
    /\ (Returned /\ schema.ty = "Mapping" /\ input.v = "Map") =>
          res.errs = EntryErrors(schema, input.items,
                                 Ascending(DOMAIN input.items), 1)
    /\ (Returned /\ schema.ty = "Sequence" /\ input.v = "List") =>
          res.errs = ElementErrors(schema, input.elems, 1)

\* C25: the errors of a validate call are appended in traversal order: in
\* Structure.validate the errors of member i precede those of member i+1
\* and the "Keys ... are not expected" error comes last; in
\* Mapping.validate the entries are taken in ascending key order, the key's
\* errors before the value's; in Sequence.validate the errors of element i
\* precede those of element i+1.  A validate call only appends: the errors
\* the collector held before the call stay in place at its front.
C25_TraversalOrder ==
    /\ []ErrorsInOrder
    /\ [][(steps' = steps + 1 /\ last'.op = "validate") =>
            /\ cell # None
            /\ cell' # None
            /\ Len(Unwrap(cell')) >= Len(Unwrap(cell))
            /\ SubSeq(Unwrap(cell'), 1, Len(Unwrap(cell))) = Unwrap(cell)
            /\ ~last'.panicked =>
                 \/ Unwrap(cell') = Unwrap(cell) \o res'.errs
                 \/ Unwrap(cell') = Unwrap(cell) \o res2'.errs]_vars

\* members a_b and c with an undeclared key x: a_b's error, then c's, then
\* the unexpected key; the second validation appended its errors behind
\* those of the first
C25_Witness ==
    /\ pc = "revalidated"
    /\ schema.ty = "Structure"
    /\ input.v = "Map"
    /\ Len(schema.members) = 2
    /\ schema.members[1].name = <<"a", "_", "b">>
    /\ schema.members[2].name = <<"c">>
    /\ Fmts(res.errs) = <<"Value must be numeric", FieldFmt, KeysFmt>>
    /\ res2.errs # <<>>
    /\ cell = Some(res.errs \o res2.errs)

====
